---- MODULE Spec2Model ----
(***************************************************************************)
(* Model of django-fast-update: the update strategies of                   *)
(* fast_update/update.py (flat_update, merged_update), fast_update/fast.py *)
(* (fast_update), fast_update/copy.py (copy_update) and the queryset       *)
(* method of fast_update/query.py, acting on one database table.           *)
(*                                                                         *)
(* The table is the multi-table model MultiSub(MultiBase) of the example   *)
(* application: columns s1, s2 are stored in MultiSub's own table (local   *)
(* fields), b1 in the parent table MultiBase (non-local field).            *)
(***************************************************************************)
EXTENDS Integers, Sequences, FiniteSets, TLC

(* ------------------------------ bounds -------------------------------- *)
\* primary keys 1..NumPks may exist in the table
NumPks == 3
\* at most MaxObjs objects are passed to one call
MaxObjs == 3
\* plain integer field values are 0..MaxVal
MaxVal == 1
\* an array value has at most MaxNodes nodes (arrays and their elements)
MaxNodes == 5
\* an array field is declared with 1..MaxDepth dimensions
MaxDepth == 3
\* at most MaxRegs register_fieldclass calls are made
MaxRegs == 2
\* copy_from is stepped through for at most MaxRows objects
MaxRows == 3
\* the pipe takes PipeCap chunks of 64k before a write to it blocks
PipeCap == 1
\* get_vendor is called at most MaxCalls times on MaxConns connections
MaxConns == 2
MaxCalls == 3
\* byte by byte, copy_from is run on at most SerRows objects, with binary
\* values of at most MaxBin bytes
SerRows == 2
MaxBin == 2
\* the chunk size of copy_from (65536 in the code) and the length above which
\* Binary encodes lazily (4096 in the code), scaled down to bytes that can be
\* enumerated
ChunkSize == 6
LazyMin == 1
\* at most MaxCells (object, field) values are passed to one call
MaxCells == 6
\* the failing statement of a call is one of its first MaxFail statements
MaxFail == 3
\* explicit batch sizes are 1..MaxBatch
MaxBatch == 2
PlanObjs == 4
PlanCells == 8

(* --------------------------- model metadata --------------------------- *)
\* obj.pk is None
NoPk == 0
PKs == 1..NumPks

\* columns of the joined MultiSub row, in declaration order
Cols == <<"s1", "s2", "b1">>
ColSet == {"s1", "s2", "b1"}
\* model._meta.local_fields of MultiSub (without the parent link)
LocalCols == {"s1", "s2"}
\* field.model of a column
FieldModel(f) == IF f \in LocalCols THEN "MultiSub" ELSE "MultiBase"
\* names get_field() resolves: the columns, the primary key and a reverse
\* (non-concrete) relation
PkName == "id"
RelName == "multisub"
FieldNames == ColSet \cup {PkName, RelName}
IsConcrete(f) == f # RelName
IsPrimaryKey(f) == f = PkName

(* ------------------------------- values ------------------------------- *)
\* a plain hashable value, an unhashable value (a list, as for a JSON
\* field) and an expression F(column)
IntVal(v) == [t |-> "int", v |-> v]
ListVal(v) == [t |-> "list", v |-> v]
FExpr(c) == [t |-> "F", v |-> c]
IsHashable(x) == x.t # "list"
IsExpression(x) == x.t = "F"
\* the value the database stores for an assignment evaluated on row
Eval(x, row) == IF x.t = "F" THEN row[Cols[x.v]] ELSE x

SeqRange(s) == {s[i] : i \in 1..Len(s)}
Max(a, b) == IF a >= b THEN a ELSE b
Min(a, b) == IF a <= b THEN a ELSE b

VARIABLES
    \* the committed rows: a function from the existing primary keys to rows
    table,
    \* the last call: its arguments, what it returned or raised, and the
    \* statements it executed
    call,
    \* the array value handed to copy_update for an array field, and what the
    \* call made of it
    arr,
    \* the global field class -> encoder mapping of copy.py
    ENCODERS,
    \* the register_fieldclass calls made so far: their number and, for each
    \* class registered, the arguments of the last call for it
    registered,
    \* the last get_encoder call: its field, its result and the mapping before it
    lookup,
    \* a copy_update call of the copy path: step by step with the position of
    \* copy_from, the pipe, the worker thread and the end of the call, or
    \* byte by byte with the payload and what the transfer receives
    cf,
    \* the connection -> vendor cache of fast.py
    SEEN_CONNECTIONS,
    \* the backends of the connections and the get_vendor calls made so far:
    \* the writes to the cache and the last call
    seen

vars == <<table, call, arr, ENCODERS, registered, lookup, cf, SEEN_CONNECTIONS, seen>>
\* the variables of the encoder registry, of the vendor cache, all but those
\* of the registry, and all but cf
regvars == <<ENCODERS, registered, lookup>>
cachevars == <<SEEN_CONNECTIONS, seen>>
dbvars == <<table, call, arr, cf, SEEN_CONNECTIONS, seen>>
restvars == <<table, call, arr, ENCODERS, registered, lookup, SEEN_CONNECTIONS, seen>>

(* ------------------------- database statements ------------------------ *)
\* qs.query.where of the querysets considered: no filter, or filter(s1__gt=0)
Wheres == {"none", "s1__gt"}
Matches(where, row) == where = "none" \/ (row["s1"].t = "int" /\ row["s1"].v > 0)

\* The state of one call while it runs: the working table t of the open
\* transaction, the number n of data statements executed, the pending
\* exception err, the function result ret, the last cursor rowcount rc, the
\* statements executed (log), the strategy invocations (inv) and the
\* statement that fails (failAt, 0: none does).
NewRun(t, failAt) ==
    [t |-> t, n |-> 0, err |-> "none", ret |-> 0, rc |-> 0,
     log |-> <<>>, inv |-> <<>>, failAt |-> failAt]

Raise(rs, e) == IF rs.err # "none" THEN rs ELSE [rs EXCEPT !.err = e]

\* SET col = value for the columns of data; expressions read the old row
Assign(row, data) ==
    [c \in ColSet |-> IF c \in DOMAIN data THEN Eval(data[c], row) ELSE row[c]]

\* what is recorded of an executed statement: its kind, the primary keys and
\* columns it names, the rows it matched, the rowcount it reported and the
\* strategy invocation that issued it
LogEntry(op, pks, cols, hit, rs) ==
    [op |-> op, pks |-> pks, cols |-> cols, hit |-> hit, rc |-> Cardinality(hit),
     inv |-> Len(rs.inv)]

\* the rows a statement restricted to the primary keys pks matches
Targets_anypk(t, where, pks) == {pk \in DOMAIN t : Matches(where, t[pk])}
Targets(t, where, pks) == {pk \in DOMAIN t \cap pks : Matches(where, t[pk])}

\* a value that is no integer and no expression fails in the field's
\* preparation for the database
Preparable(x) == x.t # "list"

\* one data statement: it raises in preparation, or fails in the database
\* (the statement failAt does), or sets the hit rows as newrow says
Statement(rs, op, pks, cols, ok, hit, newrow) ==
    IF rs.err # "none" THEN rs
    ELSE IF ~ok THEN [rs EXCEPT !.err = "TypeError"]
    ELSE IF rs.n + 1 = rs.failAt
    THEN [rs EXCEPT !.n = @ + 1, !.err = "DatabaseError"]
    ELSE [rs EXCEPT
            !.n = @ + 1,
            !.rc = Cardinality(hit),
            !.t = [pk \in DOMAIN rs.t |-> IF pk \in hit THEN newrow[pk] ELSE rs.t[pk]],
            !.log = Append(@, LogEntry(op, pks, cols, hit, rs))]

\* qs.filter(pk__in=pks).update(**data): one UPDATE, returns the rows matched
QsUpdate(rs, where, pks, data) ==
    Statement(rs, "update", pks, DOMAIN data,
              \A c \in DOMAIN data : Preparable(data[c]),
              Targets(rs.t, where, pks),
              [pk \in DOMAIN rs.t |-> Assign(rs.t[pk], data)])

\* a strategy function starts: rows_updated = 0
BeginInv(rs, plan, objs, fields) ==
    IF rs.err # "none" THEN rs
    ELSE [rs EXCEPT !.ret = 0,
                    !.inv = Append(@, [plan |-> plan, fields |-> fields, n |-> Len(objs)])]

\* with transaction.atomic(savepoint=False): an exception leaving the block
\* rolls the transaction back, a normal exit commits it
Atomic_norollback(pre, rs) ==
    [t |-> rs.t, mid |-> rs.t, ret |-> rs.ret, err |-> rs.err,
     log |-> rs.log, inv |-> rs.inv]
Atomic(pre, rs) ==
    [t |-> IF rs.err # "none" THEN pre ELSE rs.t, mid |-> rs.t,
     ret |-> rs.ret, err |-> rs.err, log |-> rs.log, inv |-> rs.inv]

ObjPks(objs) == {objs[i].pk : i \in 1..Len(objs)}

(* ---------------------- update.py: the flat plan ---------------------- *)
\* dict(zip(fields, get_values(o)))
RowData(o, fields) == [f \in SeqRange(fields) |-> o.vals[f]]

RECURSIVE _flat_loop(_, _, _, _, _)
_flat_loop(rs, where, objs, fields, i) ==
    IF i > Len(objs) \/ rs.err # "none" THEN rs
    ELSE LET r == QsUpdate(rs, where, {objs[i].pk}, RowData(objs[i], fields))
         IN _flat_loop([r EXCEPT !.ret = rs.ret + r.rc], where, objs, fields, i + 1)

_flat(rs, where, objs, fields) ==
    _flat_loop(BeginInv(rs, "flat", objs, fields), where, objs, fields, 1)

(* --------------------- update.py: merging of values ------------------- *)
\* an insertion-ordered dict as a sequence of [key, data] entries:
\* d[key][f] = v
DictSet(d, key, f, v) ==
    LET at == {k \in 1..Len(d) : d[k].key = key}
    IN IF at = {}
       THEN Append(d, [key |-> key, data |-> (f :> v)])
       ELSE LET k == CHOOSE x \in at : TRUE
                old == d[k].data
            IN [d EXCEPT ![k].data =
                   [c \in DOMAIN old \cup {f} |-> IF c = f THEN v ELSE old[c]]]

\* step 1 for one field: accu[value].append(o.pk) for the hashable values
RECURSIVE Accumulate(_, _, _, _)
Accumulate(objs, f, i, accu) ==
    IF i > Len(objs) THEN accu
    ELSE LET v == objs[i].vals[f]
             at == {k \in 1..Len(accu) : accu[k].value = v}
         IN IF ~IsHashable(v) THEN Accumulate(objs, f, i + 1, accu)
            ELSE IF at = {}
            THEN Accumulate(objs, f, i + 1,
                            Append(accu, [value |-> v, pks |-> <<objs[i].pk>>]))
            ELSE Accumulate(objs, f, i + 1,
                            [accu EXCEPT ![CHOOSE x \in at : TRUE].pks =
                                Append(@, objs[i].pk)])

merged_pks(objs, f) == Accumulate(objs, f, 1, <<>>)

\* step 1, except TypeError: flat_residues[o.pk][fieldname] = value, fields
\* in the outer loop, objects in the inner loop
RECURSIVE Unhashables(_, _, _, _)
Unhashables(objs, fields, k, res) ==
    IF k >= Len(fields) * Len(objs) THEN res
    ELSE LET f == fields[(k \div Len(objs)) + 1]
             o == objs[(k % Len(objs)) + 1]
         IN Unhashables(objs, fields, k + 1,
                        IF IsHashable(o.vals[f]) THEN res
                        ELSE DictSet(res, o.pk, f, o.vals[f]))

\* step 2: a value with one pk goes to the residue of that pk, a value with
\* several pks to the merged update of frozenset(pks)
RECURSIVE AggregateFields(_, _, _, _, _)
AggregateFields(objs, fields, fi, gi, acc) ==
    IF fi > Len(fields) THEN acc
    ELSE LET groups == merged_pks(objs, fields[fi])
         IN IF gi > Len(groups)
            THEN AggregateFields(objs, fields, fi + 1, 1, acc)
            ELSE LET g == groups[gi]
                 IN IF Len(g.pks) = 1
                    THEN AggregateFields(objs, fields, fi, gi + 1,
                             [acc EXCEPT !.flat_residues =
                                 DictSet(@, g.pks[1], fields[fi], g.value)])
                    ELSE AggregateFields(objs, fields, fi, gi + 1,
                             [acc EXCEPT !.merged_updates =
                                 DictSet(@, SeqRange(g.pks), fields[fi], g.value)])

\* (the values that are not hashable left out)
_merge_values_hashable(objs, fields) ==
    AggregateFields(objs, fields, 1, 1, [merged_updates |-> <<>>, flat_residues |-> <<>>])

_merge_values(objs, fields) ==
    AggregateFields(objs, fields, 1, 1,
        [merged_updates |-> <<>>,
         flat_residues |-> Unhashables(objs, fields, 0, <<>>)])

(* ---------------------- update.py: cost prediction -------------------- *)
\* Work is counted in units of 1/Log2Scale, the precision log2 is kept to
Log2Scale == 1000000
\* math.log2(n), rounded down to that precision
Log2Scaled(n) ==
    CASE n = 1 -> 0
      [] n = 2 -> 1000000
      [] n = 3 -> 1584962
      [] n = 4 -> 2000000
      [] n = 5 -> 2321928
      [] n = 6 -> 2584962
      [] n = 7 -> 2807354
      [] n = 8 -> 3000000

UpdateBaseCost == 10
upd_pk_work(n) == UpdateBaseCost * Log2Scale + Log2Scaled(n)
UDP_1 == upd_pk_work(1)

RECURSIVE SumLenData(_, _)
SumLenData(d, i) ==
    IF i > Len(d) THEN 0
    ELSE Cardinality(DOMAIN d[i].data) * Log2Scale + SumLenData(d, i + 1)

RECURSIVE SumPkWork(_, _)
SumPkWork(d, i) ==
    IF i > Len(d) THEN 0
    ELSE upd_pk_work(Cardinality(d[i].key)) + SumPkWork(d, i + 1)

\* the ratio (uh_work + mg_work) / flat_work as numerator and denominator
predictor(objs, fields, merged_updates, residues) ==
    LET flat_work == (Len(fields) * Log2Scale + UDP_1) * Len(objs)
        uh_work == Len(residues) * UDP_1 + SumLenData(residues, 1)
        mg_work == SumPkWork(merged_updates, 1) + SumLenData(merged_updates, 1)
    IN [num |-> uh_work + mg_work, den |-> flat_work]

\* the threshold 0.8 as ThresholdNum / ThresholdDen
ThresholdNum == 8
ThresholdDen == 10
BelowThreshold(p) == p.num * ThresholdDen < ThresholdNum * p.den

(* --------------------- update.py: the merged plan --------------------- *)
RECURSIVE ExecMerged(_, _, _, _)
ExecMerged(rs, where, merged_updates, i) ==
    IF i > Len(merged_updates) \/ rs.err # "none" THEN rs
    ELSE ExecMerged(QsUpdate(rs, where, merged_updates[i].key, merged_updates[i].data),
                    where, merged_updates, i + 1)

\* (no statement for the residues)
ExecResidues_none(rs, where, residues, i) == rs

RECURSIVE ExecResidues(_, _, _, _)
ExecResidues(rs, where, residues, i) ==
    IF i > Len(residues) \/ rs.err # "none" THEN rs
    ELSE ExecResidues(QsUpdate(rs, where, {residues[i].key}, residues[i].data),
                      where, residues, i + 1)

_merged(rs, where, objs, fields) ==
    LET mv == _merge_values(objs, fields)
    IN IF BelowThreshold(predictor(objs, fields, mv.merged_updates, mv.flat_residues))
       THEN LET r0 == BeginInv(rs, "merged", objs, fields)
                r1 == ExecMerged(r0, where, mv.merged_updates, 1)
                r2 == ExecResidues(r1, where, mv.flat_residues, 1)
            IN [r2 EXCEPT !.ret = Len(objs)]
       ELSE _flat(rs, where, objs, fields)

(* ------------------------- update.py: _update ------------------------- *)
\* field_groups: qs.model first, then the other models in field order; with
\* one parent model that is MultiSub, then MultiBase if it owns a field
FieldsOfModel(fieldnames, m) == SelectSeq(fieldnames, LAMBDA f : FieldModel(f) = m)
group_fields(fieldnames) ==
    <<[model |-> "MultiSub", fields |-> FieldsOfModel(fieldnames, "MultiSub")]>>
    \o (IF FieldsOfModel(fieldnames, "MultiBase") = <<>> THEN <<>>
        ELSE <<[model |-> "MultiBase",
                fields |-> FieldsOfModel(fieldnames, "MultiBase")]>>)

CallFunc(func, rs, where, objs, fields) ==
    IF func = "_flat" THEN _flat(rs, where, objs, fields)
    ELSE _merged(rs, where, objs, fields)

\* the loop over the field groups, on model._base_manager (no filter)
RECURSIVE UpdateGroups(_, _, _, _, _, _)
UpdateGroups(func, rs, objs, groups, i, rows_updated) ==
    IF rs.err # "none" THEN rs
    ELSE IF i > Len(groups) THEN [rs EXCEPT !.ret = rows_updated]
    ELSE IF groups[i].fields = <<>>
    THEN UpdateGroups(func, rs, objs, groups, i + 1, rows_updated)
    ELSE LET r == CallFunc(func, rs, "none", objs, groups[i].fields)
         IN UpdateGroups(func, r, objs, groups, i + 1, Max(rows_updated, r.ret))

_update(func, pre, failAt, where, objs, fieldnames, unfiltered) ==
    Atomic(pre,
           IF ~unfiltered /\ where # "none"
           THEN CallFunc(func, NewRun(pre, failAt), where, objs, fieldnames)
           ELSE UpdateGroups(func, NewRun(pre, failAt), objs,
                             group_fields(fieldnames), 1, 0))

flat_update(pre, failAt, where, objs, fieldnames, unfiltered) ==
    _update("_flat", pre, failAt, where, objs, fieldnames, unfiltered)

MergeMinObjs == 3
\* merged_update without the short cut for small batches
merged_update_always(pre, failAt, where, objs, fieldnames, unfiltered) ==
    _update("_merged", pre, failAt, where, objs, fieldnames, unfiltered)
merged_update(pre, failAt, where, objs, fieldnames, unfiltered) ==
    IF Len(objs) < MergeMinObjs
    THEN _update("_flat", pre, failAt, where, objs, fieldnames, unfiltered)
    ELSE _update("_merged", pre, failAt, where, objs, fieldnames, unfiltered)

(* ------------------------ django: bulk_update ------------------------- *)
NoBatch == 0

FirstWith(objs, pk) ==
    objs[CHOOSE i \in 1..Len(objs) :
            objs[i].pk = pk /\ \A j \in 1..(i - 1) : objs[j].pk # pk]
LastWith(objs, pk) ==
    objs[CHOOSE i \in 1..Len(objs) :
            objs[i].pk = pk /\ \A j \in (i + 1)..Len(objs) : objs[j].pk # pk]

\* self.filter(pk__in=pks).update(f=Case(When(pk=.., then=..), ..)) of one
\* batch: the first When of a row's primary key gives its value
QsCaseUpdate(rs, where, batch, fields) ==
    Statement(rs, "case", ObjPks(batch), SeqRange(fields),
              \A i \in 1..Len(batch) : \A f \in SeqRange(fields) :
                  Preparable(batch[i].vals[f]),
              Targets(rs.t, where, ObjPks(batch)),
              [pk \in DOMAIN rs.t |->
                  IF pk \in ObjPks(batch)
                  THEN Assign(rs.t[pk], RowData(FirstWith(batch, pk), fields))
                  ELSE rs.t[pk]])

RECURSIVE BulkLoop(_, _, _, _, _, _, _)
BulkLoop(rs, where, objs, fields, size, from, rows) ==
    IF rs.err # "none" THEN rs
    ELSE IF from > Len(objs) THEN [rs EXCEPT !.ret = rows]
    ELSE LET r == QsCaseUpdate(rs, where,
                      SubSeq(objs, from, Min(from + size - 1, Len(objs))), fields)
         IN BulkLoop(r, where, objs, fields, size, from + size, rows + r.rc)

\* the batch size in use: the given one capped by what the backend takes in
\* one statement (connection.ops.bulk_batch_size: all objects), or that cap
\* (the given batch size ignored)
BatchSizeUsed_all(batch_size, objs) == Len(objs)
BatchSizeUsed(batch_size, objs) ==
    IF batch_size = NoBatch THEN Len(objs) ELSE Min(batch_size, Len(objs))

\* qs.bulk_update(objs, fields, batch_size): one filtered UPDATE per batch
bulk_update(rs, where, objs, fields, batch_size) ==
    IF rs.err # "none" THEN rs
    ELSE IF objs = <<>> THEN [rs EXCEPT !.ret = 0]
    ELSE BulkLoop(rs, where, objs, fields, BatchSizeUsed(batch_size, objs), 1, 0)

(* ------------------------- fast.py: fast_update ----------------------- *)
ConnVendors == {"postgresql", "oracle"}
\* every backend taken as one with a fast implementation
get_vendor_any(conn) == "postgresql"
get_vendor(conn) == IF conn = "postgresql" THEN "postgresql" ELSE ""

\* every named field counted as non-local
NonLocal_all(fieldnames) == fieldnames
NonLocal(fieldnames) == SelectSeq(fieldnames, LAMBDA f : f \notin LocalCols)
Local(fieldnames) == SelectSeq(fieldnames, LAMBDA f : f \in LocalCols)

\* which of several VALUES rows with one primary key the join takes
Picks == {"first", "last"}
JoinRow(rows, pk, pick) == IF pick = "first" THEN FirstWith(rows, pk) ELSE LastWith(rows, pk)

\* UPDATE table SET .. FROM (VALUES ..) WHERE table.pk = values.pk
update_from_values(rs, fields, data, pick) ==
    Statement(rs, "values", ObjPks(data), SeqRange(fields), TRUE,
              Targets(rs.t, "none", ObjPks(data)),
              [pk \in DOMAIN rs.t |->
                  IF pk \in ObjPks(data)
                  THEN Assign(rs.t[pk], RowData(JoinRow(data, pk, pick), fields))
                  ELSE rs.t[pk]])

\* get_db_prep_save of the named fields of an object
PrepSave(o, fields) == \A f \in SeqRange(fields) : o.vals[f].t = "int"

RECURSIVE FastLoop(_, _, _, _, _, _, _, _)
FastLoop(rs, objs, fields, size, pick, i, data, rows_updated) ==
    IF rs.err # "none" THEN rs
    ELSE IF i > Len(objs)
    THEN IF data # <<>>
         THEN LET r == update_from_values(rs, fields, data, pick)
              IN [r EXCEPT !.ret = rows_updated + r.rc]
         ELSE [rs EXCEPT !.ret = rows_updated]
    ELSE IF ~PrepSave(objs[i], fields) THEN Raise(rs, "TypeError")
    ELSE IF Len(data) + 1 >= size
    THEN LET r == update_from_values(rs, fields, Append(data, objs[i]), pick)
         IN FastLoop(r, objs, fields, size, pick, i + 1, <<>>, rows_updated + r.rc)
    ELSE FastLoop(rs, objs, fields, size, pick, i + 1, Append(data, objs[i]), rows_updated)

\* the delegated row count added to the local one
ThenBulk_sum(rs, where, objs, non_local, batch_size) ==
    IF non_local = <<>> \/ rs.err # "none" THEN rs
    ELSE LET b == bulk_update(rs, where, objs, non_local, batch_size)
         IN [b EXCEPT !.ret = rs.ret + b.ret]
\* rows_updated = max(rows_updated, qs.bulk_update(objs, non_local) or 0)
ThenBulk(rs, where, objs, non_local, batch_size) ==
    IF non_local = <<>> \/ rs.err # "none" THEN rs
    ELSE LET b == bulk_update(rs, where, objs, non_local, batch_size)
         IN [b EXCEPT !.ret = Max(rs.ret, b.ret)]

fast_update(pre, failAt, conn, pick, where, objs, fieldnames, batch_size) ==
    IF get_vendor(conn) = ""
    THEN Atomic(pre, bulk_update(NewRun(pre, failAt), where, objs, fieldnames, batch_size))
    ELSE IF Local(fieldnames) = <<>>
    THEN Atomic(pre, bulk_update(NewRun(pre, failAt), where, objs,
                                 NonLocal(fieldnames), batch_size))
    ELSE Atomic(pre,
            ThenBulk(FastLoop(NewRun(pre, failAt), objs, Local(fieldnames),
                              BatchSizeUsed(batch_size, objs), pick, 1, <<>>, 0),
                     where, objs, NonLocal(fieldnames), batch_size))

(* ------------------------ query.py: fast_update ----------------------- *)
_fast_update(pre, failAt, conn, pick, where, objs, fieldnames, batch_size) ==
    IF get_vendor(conn) = ""
    THEN Atomic(pre, bulk_update(NewRun(pre, failAt), where, objs, fieldnames, batch_size))
    ELSE IF NonLocal(fieldnames) # <<>> /\ Len(Local(fieldnames)) < 2
    THEN Atomic(pre, bulk_update(NewRun(pre, failAt), where, objs, fieldnames, batch_size))
    ELSE Atomic(pre,
            ThenBulk(IF Local(fieldnames) # <<>>
                     THEN FastLoop(NewRun(pre, failAt), objs, Local(fieldnames),
                                   BatchSizeUsed(batch_size, objs), pick, 1, <<>>, 0)
                     ELSE NewRun(pre, failAt),
                     where, objs, NonLocal(fieldnames),
                     IF Local(fieldnames) # <<>>
                     THEN BatchSizeUsed(batch_size, objs) ELSE batch_size))

ErrBatchSize == "ValueError: Batch size must be a positive integer."
ErrNoFields == "ValueError: Field names must be given to fast_update()."
ErrNoPk == "ValueError: All fast_update() objects must have a primary key set."
ErrConcrete == "ValueError: fast_update() can only be used with concrete fields."
ErrPkField == "ValueError: fast_update() cannot be used with primary key fields."
ValueErrors == {ErrBatchSize, ErrNoFields, ErrNoPk, ErrConcrete, ErrPkField}

\* the call ends before the database is touched
Raised(pre, e) ==
    [t |-> pre, mid |-> pre, ret |-> 0, err |-> e, log |-> <<>>, inv |-> <<>>]
Returned(pre, v) ==
    [t |-> pre, mid |-> pre, ret |-> v, err |-> "none", log |-> <<>>, inv |-> <<>>]

\* fast_update without the check of the objects' primary keys
QuerySet_fast_update_anypk(pre, failAt, conn, pick, where, objs, fields, batch_size) ==
    IF batch_size # NoBatch /\ batch_size < 0 THEN Raised(pre, ErrBatchSize)
    ELSE IF fields = <<>> THEN Raised(pre, ErrNoFields)
    ELSE IF \E f \in SeqRange(fields) : ~IsConcrete(f) THEN Raised(pre, ErrConcrete)
    ELSE IF \E f \in SeqRange(fields) : IsPrimaryKey(f) THEN Raised(pre, ErrPkField)
    ELSE IF objs = <<>> THEN Returned(pre, 0)
    ELSE _fast_update(pre, failAt, conn, pick, where, objs, fields, batch_size)

\* FastUpdateQuerySet.fast_update; "not fields" holds for None and for an
\* empty list alike, both are the empty field list here
QuerySet_fast_update(pre, failAt, conn, pick, where, objs, fields, batch_size) ==
    IF batch_size # NoBatch /\ batch_size < 0 THEN Raised(pre, ErrBatchSize)
    ELSE IF fields = <<>> THEN Raised(pre, ErrNoFields)
    ELSE IF \E i \in 1..Len(objs) : objs[i].pk = NoPk THEN Raised(pre, ErrNoPk)
    ELSE IF \E f \in SeqRange(fields) : ~IsConcrete(f) THEN Raised(pre, ErrConcrete)
    ELSE IF \E f \in SeqRange(fields) : IsPrimaryKey(f) THEN Raised(pre, ErrPkField)
    ELSE IF objs = <<>> THEN Returned(pre, 0)
    ELSE _fast_update(pre, failAt, conn, pick, where, objs, fields, batch_size)

(* ------------------------- copy.py: copy_update ----------------------- *)
\* the Int / IntOrNone encoders of the primary key and the named fields
Encodes(o, fields) == \A f \in SeqRange(fields) : o.vals[f].t = "int"

\* copy_from: encode every object, then COPY the payload into the temporary
\* table; nothing is sent when there is no payload
copy_from(rs, objs, fields) ==
    IF objs = <<>> THEN rs
    ELSE Statement(rs, "copy", ObjPks(objs), SeqRange(fields),
                   \A i \in 1..Len(objs) : Encodes(objs[i], fields), {}, rs.t)

\* UPDATE table SET .. FROM temp WHERE table.pk = temp.pk; rows_updated = c.rowcount
update_sql(rs, objs, fields, pick) ==
    LET r == Statement(rs, "from_temp", ObjPks(objs), SeqRange(fields), TRUE,
                  Targets(rs.t, "none", ObjPks(objs)),
                  [pk \in DOMAIN rs.t |->
                      IF pk \in ObjPks(objs)
                      THEN Assign(rs.t[pk], RowData(JoinRow(objs, pk, pick), fields))
                      ELSE rs.t[pk]])
    IN IF r.err # "none" THEN r ELSE [r EXCEPT !.ret = r.rc]

copy_update(pre, failAt, pick, where, objs, fieldnames) ==
    IF Local(fieldnames) = <<>>
    THEN Atomic(pre, bulk_update(NewRun(pre, failAt), where, objs,
                                 NonLocal(fieldnames), NoBatch))
    ELSE Atomic(pre,
            ThenBulk(update_sql(copy_from(NewRun(pre, failAt), objs, Local(fieldnames)),
                                objs, Local(fieldnames), pick),
                     where, objs, NonLocal(fieldnames), NoBatch))

(* ----------------------- copy.py: array encoder ---------------------- *)
\* A python value as a tree: None, an int, or a list or tuple of values
NoneVal == [k |-> "none", e |-> <<>>]
IntLeaf == [k |-> "int", e |-> <<>>]
ListOf(es) == [k |-> "list", e |-> es]
TupleOf(es) == [k |-> "tuple", e |-> es]
\* isinstance(v, (list, tuple))
IsSeq(v) == v.k \in {"list", "tuple"}

RECURSIVE is_empty_array(_)
is_empty_array(v) ==
    IF v = ListOf(<<>>) THEN TRUE
    ELSE IF \A i \in 1..Len(v.e) :
                IF IsSeq(v.e[i]) THEN is_empty_array(v.e[i]) ELSE v.e[i] = NoneVal
    THEN (IF \A i \in 1..Len(v.e) : v.e[i] = NoneVal THEN FALSE ELSE TRUE)
    ELSE FALSE

\* the result of _balanced: None, or the tuple of the results for the elements
ShapeNone == [k |-> "None", e |-> <<>>]
RECURSIVE _balanced(_, _, _)
_balanced(v, depth, dim) ==
    IF ~IsSeq(v) \/ dim >= depth THEN ShapeNone
    ELSE [k |-> "tuple", e |-> [i \in 1..Len(v.e) |-> _balanced(v.e[i], depth, dim + 1)]]

\* len(set(_balanced(v, depth) or [])) < 2
is_balanced(v, depth) ==
    LET b == _balanced(v, depth, 0)
    IN Cardinality(IF b = ShapeNone \/ b.e = <<>> THEN {} ELSE SeqRange(b.e)) < 2

\* Rendered text is a sequence of tokens; NULL is \N, SQL_NULL is NULL
Rendered(toks) == [err |-> "none", toks |-> toks]
Failed(e) == [err |-> e, toks |-> <<>>]
ErrUnbalanced == "ValueError: multidimensional arrays must be balanced"
ErrArrayType == "TypeError: expected type list or tuple"
ErrIntType == "TypeError: expected type int"
\* '{' + ','.join(parts) + '}', or the first exception of a part
RECURSIVE JoinParts(_, _, _)
JoinParts(parts, i, acc) ==
    IF i > Len(parts) THEN Rendered(acc \o <<"}">>)
    ELSE IF parts[i].err # "none" THEN parts[i]
    ELSE JoinParts(parts, i + 1,
                   acc \o (IF i > 1 THEN <<",">> ELSE <<>>) \o parts[i].toks)
Braces(parts) == JoinParts(parts, 1, <<"{">>)

\* the encoder Int of the base field
IntEnc(v) == IF v.k = "int" THEN Rendered(<<"1">>) ELSE Failed(ErrIntType)

\* the encoder array_factory(Int, depth, null) returns
RECURSIVE _encode_array(_, _, _, _)
_encode_array(v, depth, null, dim) ==
    IF dim = 0
    THEN IF v = NoneVal
         THEN (IF null THEN Rendered(<<"\\N">>) ELSE Failed(ErrArrayType))
         ELSE IF IsSeq(v)
         THEN IF is_empty_array(v) THEN Rendered(<<"{", "}">>)
              ELSE IF depth > 1 /\ ~is_balanced(v, depth) THEN Failed(ErrUnbalanced)
              ELSE Braces([i \in 1..Len(v.e) |-> _encode_array(v.e[i], depth, null, dim + 1)])
         ELSE Failed(ErrArrayType)
    ELSE IF v = NoneVal THEN Rendered(<<"NULL">>)
    ELSE IF IsSeq(v) /\ dim < depth
    THEN Braces([i \in 1..Len(v.e) |-> _encode_array(v.e[i], depth, null, dim + 1)])
    ELSE IntEnc(v)

\* copy_update of one object with the array value in one local field: the
\* statements executed up to the exception or the end of the call
SqlBeforeCopy == <<"DROP TABLE IF EXISTS", "CREATE TEMPORARY TABLE">>
SqlFromCopy == <<"COPY", "ANALYZE", "UPDATE", "DROP TABLE">>
copy_update_array(v, depth, null) ==
    LET r == _encode_array(v, depth, null, 0)
    IN [stage |-> "done", v |-> v, depth |-> depth, null |-> null,
        err |-> r.err, wire |-> r.toks,
        sql |-> IF r.err # "none" THEN SqlBeforeCopy ELSE SqlBeforeCopy \o SqlFromCopy]

(* ---------------------- copy.py: encoder registry --------------------- *)
\* type(field).__mro__ of the field classes, restricted to field classes
FieldClasses == {"Field", "IntegerField", "CustomField", "ForeignKey", "ArrayField"}
Mro(cls) == IF cls = "Field" THEN <<"Field">> ELSE <<cls, "Field">>
\* isinstance(field, RelatedField), isinstance(field, ArrayField)
IsRelated(f) == f.cls = "ForeignKey"
IsArray(f) == f.cls = "ArrayField"

\* ENCODERS as the module defines it: of the classes here IntegerField only
DefaultEncoders == [c \in {"IntegerField"} |-> <<"Int", "IntOrNone">>]
\* encoder_none was not given
Omitted == "None"

\* ENCODERS[field_cls] = (encoder, encoder_none or encoder), kept only for a
\* class that has no entry yet
register_fieldclass_keep(E, field_cls, encoder, encoder_none) ==
    IF field_cls \in DOMAIN E THEN E
    ELSE [c \in DOMAIN E \cup {field_cls} |->
            IF c = field_cls
            THEN <<encoder, IF encoder_none = Omitted THEN encoder ELSE encoder_none>>
            ELSE E[c]]
\* ENCODERS[field_cls] = (encoder, encoder_none or encoder)
register_fieldclass(E, field_cls, encoder, encoder_none) ==
    [c \in DOMAIN E \cup {field_cls} |->
        IF c = field_cls
        THEN <<encoder, IF encoder_none = Omitted THEN encoder ELSE encoder_none>>
        ELSE E[c]]

\* what get_encoder returns: an encoder, the array encoder array_factory
\* made of an encoder (depth > 0), or NotImplementedError
Encoder(name) == [err |-> "none", enc |-> name, depth |-> 0, null |-> FALSE]
ArrayEncoder(name, depth, null) == [err |-> "none", enc |-> name, depth |-> depth, null |-> null]
ErrNoEncoder == "NotImplementedError: no suitable encoder found for field"
NoEncoder == [err |-> ErrNoEncoder, enc |-> "", depth |-> 0, null |-> FALSE]

\* for cls in type(field).__mro__: enc = ENCODERS.get(cls); if enc: return enc[null]
RECURSIVE MroLookup(_, _, _, _)
MroLookup(E, mro, i, null) ==
    IF i > Len(mro) THEN NoEncoder
    ELSE IF mro[i] \in DOMAIN E THEN Encoder(E[mro[i]][IF null THEN 2 ELSE 1])
    ELSE MroLookup(E, mro, i + 1, null)

\* a field: its class, its null setting, and in to the target field of a
\* relation or the base field of an array (else nothing)
PlainField(cls, null) == [cls |-> cls, null |-> null, to |-> <<>>]
FieldTo(cls, null, f) == [cls |-> cls, null |-> null, to |-> <<f>>]

\* get_encoder(field, null); null is None stands for null = field.null
RECURSIVE get_encoder_null(_, _, _)
RECURSIVE ArrayBase(_)
RECURSIVE ArrayDepth(_)
ArrayBase(f) == IF IsArray(f.to[1]) THEN ArrayBase(f.to[1]) ELSE f.to[1]
ArrayDepth(f) == IF IsArray(f.to[1]) THEN 1 + ArrayDepth(f.to[1]) ELSE 1
get_encoder_null(E, field, null) ==
    IF IsRelated(field) THEN get_encoder_null(E, field.to[1], null)
    ELSE IF IsArray(field)
    THEN LET base == ArrayBase(field)
             b == get_encoder_null(E, base, base.null)
         IN IF b.err # "none" THEN b
            ELSE ArrayEncoder(b.enc, ArrayDepth(field), null)
    ELSE MroLookup(E, Mro(field.cls), 1, null)
get_encoder(E, field) == get_encoder_null(E, field, field.null)

(* ------------------------------- inputs ------------------------------- *)
IntVals == {IntVal(v) : v \in 0..MaxVal}

\* the field lists passed: the non-empty sublists of the columns
FieldLists ==
    {<<"s1">>, <<"s2">>, <<"b1">>, <<"s1", "s2">>, <<"s1", "b1">>,
     <<"s2", "b1">>, <<"s1", "s2", "b1">>}

\* the queryset method is also called without fields, with the primary key
\* and with a relation that is no concrete field
QsFieldLists ==
    FieldLists \cup {<<>>, <<PkName>>, <<"s1", PkName>>, <<RelName>>, <<RelName, PkName>>}

BatchSizes == {NoBatch} \cup 1..MaxBatch

\* A batch of n objects has the primary keys 1..n in this order and plain
\* integer values, and deviates from that in at most one way: the last object
\* repeats the primary key of the first ("dup"), the last object has a primary
\* key without a row ("gone"), the first object has no primary key ("nopk"),
\* or object k holds, in the first named field, an unhashable value ("list")
\* or the expression F('s2') ("F").
NoVar == [kind |-> "none", k |-> 0]
Variations(n, nopk) ==
    {[kind |-> "dup", k |-> 0] : x \in {m \in {n} : m >= 2}}
    \cup {[kind |-> "gone", k |-> 0] : x \in {m \in {n} : m >= 1}}
    \cup {[kind |-> "nopk", k |-> 0] : x \in {m \in {n} : m >= 1 /\ nopk}}
    \cup {[kind |-> kd, k |-> k] : kd \in {"list", "F"}, k \in 1..n}

GonePk == NumPks + 1

PkAt(i, n, var) ==
    IF var.kind = "dup" /\ i = n THEN 1
    ELSE IF var.kind = "gone" /\ i = n THEN GonePk
    ELSE IF var.kind = "nopk" /\ i = 1 THEN NoPk
    ELSE i

ValAt(i, c, fields, vals, var) ==
    IF c \notin SeqRange(fields) THEN IntVal(0)
    ELSE IF c = fields[1] /\ i = var.k
    THEN (IF var.kind = "list" THEN ListVal(vals[i][c].v) ELSE FExpr(2))
    ELSE vals[i][c]

BatchOf(n, fields, vals, var) ==
    [i \in 1..n |-> [pk |-> PkAt(i, n, var),
                     vals |-> [c \in ColSet |-> ValAt(i, c, fields, vals, var)]]]

BatchSizesFor(fields, maxobjs, maxcells) ==
    {n \in 0..maxobjs : n * Len(fields) <= maxcells}

\* every assignment of values to the named fields of the objects
AllVals(n, fields) == [1..n -> [SeqRange(fields) \cap ColSet -> IntVals]]
\* one assignment per seed: object i holds (seed + i) modulo the number of values
SeedVals(n, fields, seed) ==
    [i \in 1..n |-> [c \in SeqRange(fields) \cap ColSet |->
                        IntVal((seed + i) % (MaxVal + 1))]]

\* the regular batches take every assignment of values
PlainBatches(fields) ==
    UNION {{BatchOf(n, fields, vals, NoVar) : vals \in AllVals(n, fields)} :
           n \in BatchSizesFor(fields, MaxObjs, MaxCells)}
SeedBatches(fields) ==
    UNION {{BatchOf(n, fields, SeedVals(n, fields, seed), NoVar) : seed \in 0..MaxVal} :
           n \in BatchSizesFor(fields, MaxObjs, MaxCells) \ {0}}
\* the deviating batches take the seeded assignments
OddBatches(fields, nopk) ==
    UNION {{BatchOf(n, fields, SeedVals(n, fields, seed), var) :
                seed \in 0..MaxVal, var \in Variations(n, nopk)} :
           n \in BatchSizesFor(fields, MaxObjs, MaxCells)}
Batches(fields, nopk) == PlainBatches(fields) \cup OddBatches(fields, nopk)

HasDuplicates(objs) == \E i, j \in 1..Len(objs) : i # j /\ objs[i].pk = objs[j].pk
HasExpression(objs, fields) ==
    \E i \in 1..Len(objs) : \E f \in SeqRange(fields) \cap ColSet :
        IsExpression(objs[i].vals[f])
PlainBatch(objs, fields) ==
    /\ ~HasDuplicates(objs)
    /\ NoPk \notin ObjPks(objs)
    /\ \A i \in 1..Len(objs) : \A f \in SeqRange(fields) \cap ColSet :
        objs[i].vals[f].t = "int"

(* ----------------------------- the machine ---------------------------- *)
\* no array field takes part in the call
NoArray == [stage |-> "none"]
\* get_encoder has not been called since the last registration
NoLookup == [done |-> FALSE]
\* no copy_from is stepped through
NoCopy == [pc |-> "none"]
\* the cache is empty, and no get_vendor call is followed
NothingSeen == <<>>
NoVendorCalls == [calls |-> 0]
\* register_fieldclass has not been called
NoCalls == [count |-> 0, last |-> <<>>]

InitRow(pk) == [c \in ColSet |-> IF c = "s1" THEN IntVal(pk % 2) ELSE IntVal(0)]

IdleCall ==
    [impl |-> "idle", objs |-> <<>>, fields |-> <<>>, where |-> "none",
     unfiltered |-> FALSE, batch_size |-> NoBatch, vendor |-> "postgresql",
     failAt |-> 0, pick |-> "first", pre |-> <<>>, mid |-> <<>>, ret |-> 0,
     err |-> "none", log |-> <<>>, inv |-> <<>>]

\* the record of a finished call: its arguments and its outcome
Done(impl, args, pre, out) ==
    [impl |-> impl, objs |-> args.objs, fields |-> args.fields,
     where |-> args.where, unfiltered |-> args.unfiltered,
     batch_size |-> args.batch_size, vendor |-> args.vendor,
     failAt |-> args.failAt, pick |-> args.pick, pre |-> pre, mid |-> out.mid,
     ret |-> out.ret, err |-> out.err, log |-> out.log, inv |-> out.inv]

Args(objs, fields, where, unfiltered, batch_size, vendor, failAt, pick) ==
    [objs |-> objs, fields |-> fields, where |-> where, unfiltered |-> unfiltered,
     batch_size |-> batch_size, vendor |-> vendor, failAt |-> failAt, pick |-> pick]

\* a call returns or raises; the table is what the transaction left
Finish(impl, args, out) ==
    /\ args.failAt > 0 => out.err = "DatabaseError"
    /\ table' = out.t
    /\ call' = Done(impl, args, table, out)
    /\ UNCHANGED <<arr, regvars, cf, cachevars>>

\* the table holds a row for every primary key of PKs
Init ==
    /\ table = [pk \in PKs |-> InitRow(pk)]
    /\ call = IdleCall
    /\ arr = NoArray
    /\ ENCODERS = DefaultEncoders
    /\ registered = NoCalls
    /\ lookup = NoLookup
    /\ SEEN_CONNECTIONS = NothingSeen
    /\ seen = NoVendorCalls
    /\ cf = NoCopy

\* a statement is made to fail only in calls with a seeded regular batch
FailPoints(objs, fields) == IF objs \in SeedBatches(fields) THEN 0..MaxFail ELSE {0}
\* the join's choice matters only among duplicates
PicksFor(objs) == IF HasDuplicates(objs) THEN Picks ELSE {"first"}
\* unfiltered matters only on a filtered queryset
Querysets == {<<"none", FALSE>>, <<"s1__gt", FALSE>>, <<"s1__gt", TRUE>>}

FlatUpdate ==
    /\ call.impl = "idle"
    /\ \E fields \in FieldLists : \E objs \in Batches(fields, FALSE) :
        \E failAt \in FailPoints(objs, fields), qs \in Querysets :
            \E out \in {flat_update(table, failAt, qs[1], objs, fields, qs[2])} :
                Finish("flat_update",
                       Args(objs, fields, qs[1], qs[2], NoBatch, "postgresql", failAt, "first"),
                       out)

MergedUpdate ==
    /\ call.impl = "idle"
    /\ \E fields \in FieldLists : \E objs \in Batches(fields, FALSE) :
        \E failAt \in FailPoints(objs, fields), qs \in Querysets :
            \E out \in {merged_update(table, failAt, qs[1], objs, fields, qs[2])} :
                Finish("merged_update",
                       Args(objs, fields, qs[1], qs[2], NoBatch, "postgresql", failAt, "first"),
                       out)

QsFastUpdate ==
    /\ call.impl = "idle"
    /\ \E fields \in QsFieldLists : \E objs \in Batches(fields, TRUE) :
        \E failAt \in FailPoints(objs, fields), pick \in PicksFor(objs),
           where \in Wheres, conn \in ConnVendors, batch_size \in {-1} \cup BatchSizes :
            \E out \in {QuerySet_fast_update(table, failAt, conn, pick, where,
                                             objs, fields, batch_size)} :
                Finish("fast_update",
                       Args(objs, fields, where, FALSE, batch_size, conn, failAt, pick),
                       out)

FastUpdate ==
    /\ call.impl = "idle"
    /\ \E fields \in FieldLists : \E objs \in Batches(fields, FALSE) :
        \E failAt \in FailPoints(objs, fields), pick \in PicksFor(objs),
           where \in Wheres, conn \in ConnVendors, batch_size \in BatchSizes :
            \E out \in {fast_update(table, failAt, conn, pick, where,
                                    objs, fields, batch_size)} :
                Finish("fast.fast_update",
                       Args(objs, fields, where, FALSE, batch_size, conn, failAt, pick),
                       out)

CopyUpdate ==
    /\ call.impl = "idle"
    /\ \E fields \in FieldLists : \E objs \in Batches(fields, FALSE) :
        \E failAt \in FailPoints(objs, fields), pick \in PicksFor(objs), where \in Wheres :
            \E out \in {copy_update(table, failAt, pick, where, objs, fields)} :
                Finish("copy_update",
                       Args(objs, fields, where, FALSE, NoBatch, "postgresql", failAt, pick),
                       out)

Next ==
    \/ QsFastUpdate
    \/ FastUpdate
    \/ CopyUpdate
    \/ FlatUpdate
    \/ MergedUpdate

Spec == Init /\ [][Next]_vars

(* ------------------- the strategies on larger batches ----------------- *)
\* regular batches of up to PlanObjs objects for the two strategies of update.py
PlanBatches(fields) ==
    UNION {{BatchOf(n, fields, vals, NoVar) : vals \in AllVals(n, fields)} :
           n \in BatchSizesFor(fields, PlanObjs, PlanCells)}

PlanFlatUpdate ==
    /\ call.impl = "idle"
    /\ \E fields \in FieldLists : \E objs \in PlanBatches(fields) : \E qs \in Querysets :
        \E out \in {flat_update(table, 0, qs[1], objs, fields, qs[2])} :
            Finish("flat_update",
                   Args(objs, fields, qs[1], qs[2], NoBatch, "postgresql", 0, "first"),
                   out)

PlanMergedUpdate ==
    /\ call.impl = "idle"
    /\ \E fields \in FieldLists : \E objs \in PlanBatches(fields) : \E qs \in Querysets :
        \E out \in {merged_update(table, 0, qs[1], objs, fields, qs[2])} :
            Finish("merged_update",
                   Args(objs, fields, qs[1], qs[2], NoBatch, "postgresql", 0, "first"),
                   out)

NextPlan ==
    \/ PlanFlatUpdate
    \/ PlanMergedUpdate

SpecPlan == Init /\ [][NextPlan]_vars

(* ------------------------- array field values ------------------------ *)
\* the values an array is built from
Leaves == {NoneVal, IntLeaf, ListOf(<<>>), TupleOf(<<>>)}

RECURSIVE Size(_)
RECURSIVE SizeAll(_, _)
Size(v) == 1 + SizeAll(v.e, 1)
SizeAll(es, i) == IF i > Len(es) THEN 0 ELSE Size(es[i]) + SizeAll(es, i + 1)

\* the arrays on the path from the value to its last element: d steps down
RECURSIVE CanAppendAt(_, _)
CanAppendAt(v, d) ==
    /\ IsSeq(v)
    /\ d > 0 => v.e # <<>> /\ CanAppendAt(v.e[Len(v.e)], d - 1)
\* the value with x appended to the array d steps down that path
RECURSIVE AppendAt(_, _, _)
AppendAt(v, d, x) ==
    IF d = 0 THEN [v EXCEPT !.e = Append(@, x)]
    ELSE [v EXCEPT !.e[Len(v.e)] = AppendAt(@, d - 1, x)]

InitArray ==
    /\ table = [pk \in PKs |-> InitRow(pk)]
    /\ call = IdleCall
    /\ arr \in {[stage |-> "value", v |-> x] : x \in Leaves}
    /\ ENCODERS = DefaultEncoders
    /\ registered = NoCalls
    /\ lookup = NoLookup
    /\ SEEN_CONNECTIONS = NothingSeen
    /\ seen = NoVendorCalls
    /\ cf = NoCopy

\* the caller builds the value of the object's array field
BuildArray ==
    /\ arr.stage = "value"
    /\ Size(arr.v) < MaxNodes
    /\ \E d \in 0..MaxNodes, x \in Leaves :
        /\ CanAppendAt(arr.v, d)
        /\ arr' = [arr EXCEPT !.v = AppendAt(arr.v, d, x)]
    /\ UNCHANGED <<table, call, regvars, cf, cachevars>>

\* copy_update with the object, on a field ArrayField(.. IntegerField()) of
\* some declared depth, nullable or not
CopyUpdateArray ==
    /\ arr.stage = "value"
    /\ \E depth \in 1..MaxDepth, null \in BOOLEAN :
        arr' = copy_update_array(arr.v, depth, null)
    /\ UNCHANGED <<table, call, regvars, cf, cachevars>>

NextArray ==
    \/ BuildArray
    \/ CopyUpdateArray

SpecArray == InitArray /\ [][NextArray]_vars

(* --------------------------- encoder registry ------------------------ *)
\* the encoders passed to register_fieldclass
CustomEncoders == {"E1", "E2"}
\* the fields get_encoder is asked for: plain fields, relations to a plain
\* field, arrays of one and two dimensions over a plain field
PlainFields == {PlainField(c, n) : c \in {"Field", "IntegerField", "CustomField"}, n \in BOOLEAN}
RelatedFields ==
    {FieldTo("ForeignKey", n, PlainField(c, FALSE)) :
        n \in BOOLEAN, c \in {"Field", "IntegerField", "CustomField"}}
ArrayFields1 ==
    {FieldTo("ArrayField", n, PlainField(c, m)) :
        n \in BOOLEAN, m \in BOOLEAN, c \in {"IntegerField", "CustomField"}}
ArrayFields2 ==
    {FieldTo("ArrayField", n, FieldTo("ArrayField", TRUE, PlainField("IntegerField", TRUE))) :
        n \in BOOLEAN}
LookupFields == PlainFields \cup RelatedFields \cup ArrayFields1 \cup ArrayFields2

InitRegistry ==
    /\ table = [pk \in PKs |-> InitRow(pk)]
    /\ call = IdleCall
    /\ arr = NoArray
    /\ ENCODERS = DefaultEncoders
    /\ registered = NoCalls
    /\ lookup = NoLookup
    /\ SEEN_CONNECTIONS = NothingSeen
    /\ seen = NoVendorCalls
    /\ cf = NoCopy

RegisterFieldclass ==
    /\ registered.count < MaxRegs
    /\ \E cls \in FieldClasses, encoder \in CustomEncoders,
          encoder_none \in CustomEncoders \cup {Omitted} :
        /\ ENCODERS' = register_fieldclass(ENCODERS, cls, encoder, encoder_none)
        /\ registered' =
               [count |-> registered.count + 1,
                last |-> [c \in DOMAIN registered.last \cup {cls} |->
                            IF c = cls
                            THEN [encoder |-> encoder, encoder_none |-> encoder_none]
                            ELSE registered.last[c]]]
    /\ lookup' = NoLookup
    /\ UNCHANGED dbvars

GetEncoder ==
    /\ \E field \in LookupFields :
        lookup' = [done |-> TRUE, field |-> field, pre |-> ENCODERS,
                   got |-> get_encoder(ENCODERS, field)]
    /\ UNCHANGED <<ENCODERS, registered, dbvars>>

NextRegistry ==
    \/ RegisterFieldclass
    \/ GetEncoder

SpecRegistry == InitRegistry /\ [][NextRegistry]_vars

(* ------------------ copy.py: copy_from step by step ------------------ *)
\* The objects of the call by the size of their encoded rows: 0 for a row
\* that leaves the payload below 64k, 1 for a row that lifts it above (one
\* full chunk is written, the rest carried forward), 2 for a row that lifts
\* it above and leaves no rest; bad is the row whose encoder or lazy writer
\* raises (0: none does). leftover: a staging table of the name exists when
\* the call starts; nested: the call runs inside an atomic block of its
\* caller. sql are the statements executed on the connection, each with the
\* thread that executed it and the state of the worker thread at that time;
\* rc_of is the statement the rowcount of the cursor c belongs to, ret_of the
\* statement whose rowcount was taken for rows_updated.
StartCopy(sizes, bad, leftover, nested) ==
    [pc |-> "start", sizes |-> sizes, bad |-> bad, i |-> 0, payload |-> FALSE,
     use_thread |-> FALSE, fw |-> "none", fr |-> "none", pipe |-> 0,
     t |-> "none", joined |-> FALSE, sent |-> 0, loaded |-> 0, aborted |-> FALSE,
     cu |-> "running", leftover |-> leftover, nested |-> nested,
     temp |-> leftover, sql |-> <<>>, rc_of |-> "none", ret_of |-> "none"]

\* c.execute(..) and c.copy_from(..) of the calling thread on its cursor c
Execute(c, op) ==
    [c EXCEPT !.sql = Append(@, [op |-> op, by |-> "caller", t |-> c.t, joined |-> c.joined]),
              !.rc_of = op,
              !.temp = IF op \in {"DROP TABLE IF EXISTS", "DROP TABLE"} THEN FALSE
                       ELSE IF op = "CREATE TEMPORARY TABLE" THEN TRUE
                       ELSE @]
\* c.copy_from(fr, ..) of the worker thread on a cursor of its own
ExecuteThreaded(c) ==
    [c EXCEPT !.sql = Append(@, [op |-> "COPY", by |-> "worker", t |-> "running",
                                 joined |-> FALSE])]
\* leaving the atomic block: commit or rollback of the outermost block
LeaveAtomic(c, op) ==
    IF c.nested THEN c
    ELSE [c EXCEPT !.sql = Append(@, [op |-> op, by |-> "caller", t |-> c.t,
                                      joined |-> c.joined]),
                   !.temp = IF op = "ROLLBACK" THEN c.leftover ELSE @]

\* rows_updated = c.rowcount taken after the DROP TABLE
AfterCopy_late(c) ==
    LET u == Execute(Execute(Execute(c, "ANALYZE"), "UPDATE"), "DROP TABLE")
    IN [u EXCEPT !.ret_of = u.rc_of]
\* ANALYZE, UPDATE .. FROM, rows_updated = c.rowcount, DROP TABLE
AfterCopy(c) ==
    LET u == Execute(Execute(c, "ANALYZE"), "UPDATE")
    IN Execute([u EXCEPT !.ret_of = u.rc_of], "DROP TABLE")

InitCopyFrom ==
    /\ table = [pk \in PKs |-> InitRow(pk)]
    /\ call = IdleCall
    /\ arr = NoArray
    /\ ENCODERS = DefaultEncoders
    /\ registered = NoCalls
    /\ lookup = NoLookup
    /\ SEEN_CONNECTIONS = NothingSeen
    /\ seen = NoVendorCalls
    /\ \E n \in 0..MaxRows : \E leftover, nested \in BOOLEAN :
        cf \in {StartCopy(sizes, bad, leftover, nested) :
                    sizes \in [1..n -> {0, 1, 2}], bad \in 0..n}

\* with transaction.atomic(..), conn.cursor() as c: DROP TABLE IF EXISTS,
\* CREATE TEMPORARY TABLE, then copy_from is entered
BeginCopyUpdate ==
    /\ cf.pc = "start"
    /\ cf' = [Execute(Execute(cf, "DROP TABLE IF EXISTS"), "CREATE TEMPORARY TABLE")
                EXCEPT !.pc = "loop"]
    /\ UNCHANGED restvars

\* for o in data: the row is encoded and appended to the payload; above 64k
\* the pipe is opened and the thread started (once), and a chunk is to be written
EncodeRow ==
    /\ cf.pc = "loop"
    /\ cf.i < Len(cf.sizes)
    /\ IF cf.i + 1 = cf.bad
       THEN cf' = [cf EXCEPT !.pc = "raised"]
       ELSE IF cf.sizes[cf.i + 1] > 0
       THEN LET c == IF cf.use_thread THEN cf
                     ELSE [ExecuteThreaded(cf) EXCEPT !.use_thread = TRUE, !.fw = "open",
                                                      !.fr = "open", !.t = "running"]
            IN cf' = [c EXCEPT !.pc = "write", !.i = @ + 1, !.payload = TRUE]
       ELSE cf' = [cf EXCEPT !.i = @ + 1, !.payload = TRUE]
    /\ UNCHANGED restvars

\* fw.write(..) returns when the pipe has taken the data
PipeWrite ==
    /\ cf.pc \in {"write", "last_write"}
    /\ cf.pipe < PipeCap
    /\ cf' = [cf EXCEPT !.pipe = @ + 1, !.sent = @ + 1,
                        !.pc = IF cf.pc = "write" THEN "loop" ELSE "close_w",
                        !.payload = cf.pc = "write" /\ cf.sizes[cf.i] = 1]
    /\ UNCHANGED restvars

\* after the loop: the rest of the payload goes to the pipe, or to
\* c.copy_from directly when no thread was started
EndLoop ==
    /\ cf.pc = "loop"
    /\ cf.i = Len(cf.sizes)
    /\ cf' = [cf EXCEPT !.pc = IF cf.use_thread
                               THEN (IF cf.payload THEN "last_write" ELSE "close_w")
                               ELSE IF cf.payload THEN "direct" ELSE "returned"]
    /\ UNCHANGED restvars

\* c.copy_from(f, ..) in the calling thread: it loads the payload or raises
DirectCopy ==
    /\ cf.pc = "direct"
    /\ \/ cf' = [Execute(cf, "COPY") EXCEPT !.pc = "returned", !.sent = @ + 1,
                                            !.loaded = @ + 1, !.payload = FALSE]
       \/ cf' = [Execute(cf, "COPY") EXCEPT !.pc = "raised", !.aborted = TRUE]
    /\ UNCHANGED restvars

\* fw.close()
CloseWrite ==
    /\ cf.pc = "close_w"
    /\ cf' = [cf EXCEPT !.fw = "closed", !.pc = "join"]
    /\ UNCHANGED restvars

\* (a join that does not wait for the thread)
Join_nowait ==
    /\ cf.pc = "join"
    /\ cf' = [cf EXCEPT !.pc = "close_r", !.joined = TRUE]
    /\ UNCHANGED restvars

\* t.join() returns when the thread has ended
Join ==
    /\ cf.pc = "join"
    /\ cf.t \in {"done", "failed"}
    /\ cf' = [cf EXCEPT !.pc = "close_r", !.joined = TRUE]
    /\ UNCHANGED restvars

\* fr.close(), return
CloseRead ==
    /\ cf.pc = "close_r"
    /\ cf' = [cf EXCEPT !.fr = "closed", !.pc = "returned"]
    /\ UNCHANGED restvars

\* threaded_copy: c.copy_from reads a chunk from the pipe
WorkerRead ==
    /\ cf.t = "running"
    /\ cf.pipe > 0
    /\ cf' = [cf EXCEPT !.pipe = @ - 1, !.loaded = @ + 1]
    /\ UNCHANGED restvars

\* threaded_copy: c.copy_from reads end of file and returns, the thread ends
WorkerFinish ==
    /\ cf.t = "running"
    /\ cf.pipe = 0
    /\ cf.fw = "closed"
    /\ cf' = [cf EXCEPT !.t = "done"]
    /\ UNCHANGED restvars

\* threaded_copy: c.copy_from raises, the thread ends with the exception and
\* reads no more; the failure has left the transaction aborted, or it has not
WorkerFail ==
    /\ cf.t = "running"
    /\ \E aborted \in BOOLEAN :
        cf' = [cf EXCEPT !.t = "failed", !.aborted = aborted]
    /\ UNCHANGED restvars

\* copy_update after copy_from: an exception of copy_from leaves the atomic
\* block; else ANALYZE and UPDATE run, which raise in an aborted transaction
\* and else return the rowcount of the update from the staging table
EndCopyUpdate ==
    /\ cf.pc \in {"returned", "raised"}
    /\ cf.cu = "running"
    /\ cf' = IF cf.pc = "raised"
             THEN [LeaveAtomic(cf, "ROLLBACK") EXCEPT !.cu = "raised"]
             ELSE IF cf.aborted
             THEN [LeaveAtomic(Execute(cf, "ANALYZE"), "ROLLBACK") EXCEPT !.cu = "raised"]
             ELSE [LeaveAtomic(AfterCopy(cf), "COMMIT") EXCEPT !.cu = "returned"]
    /\ UNCHANGED restvars

\* copy_from closes nothing when it raises: the file objects of the pipe
\* are closed when the interpreter releases them, fw with the frame of the
\* call once the exception is dropped, fr with the ended thread after it
Finalize ==
    /\ cf.pc = "raised"
    /\ cf.use_thread
    /\ \/ /\ cf.fw = "open"
          /\ cf' = [cf EXCEPT !.fw = "closed"]
       \/ /\ cf.fw = "closed"
          /\ cf.fr = "open"
          /\ cf.t # "running"
          /\ cf' = [cf EXCEPT !.fr = "closed"]
    /\ UNCHANGED restvars

NextCopyFrom ==
    \/ BeginCopyUpdate
    \/ EncodeRow
    \/ PipeWrite
    \/ EndLoop
    \/ DirectCopy
    \/ CloseWrite
    \/ Join
    \/ CloseRead
    \/ WorkerRead
    \/ WorkerFinish
    \/ WorkerFail
    \/ EndCopyUpdate
    \/ Finalize

SpecCopyFrom == InitCopyFrom /\ [][NextCopyFrom]_vars

\* the calling thread runs as long as it is not blocked, and so does the
\* worker thread as long as its transfer has not failed
CallerSteps ==
    \/ BeginCopyUpdate
    \/ EncodeRow
    \/ PipeWrite
    \/ EndLoop
    \/ DirectCopy
    \/ CloseWrite
    \/ Join
    \/ CloseRead
    \/ EndCopyUpdate
WorkerSteps ==
    \/ WorkerRead
    \/ WorkerFinish
SpecCopyFromLive ==
    InitCopyFrom /\ [][NextCopyFrom]_vars /\ WF_vars(CallerSteps) /\ WF_vars(WorkerSteps)

(* ------------------ copy.py: copy_from byte by byte ------------------- *)
\* Bytes are strings; a text value is a sequence of characters, a binary
\* value is given by its length. A field value is [k |-> "T", v |-> text] or
\* [k |-> "B", n |-> length], a row the sequence of the values of its fields.
LAZY_PLACEHOLDER == "NUL"

RECURSIVE text_escape(_)
text_escape(v) ==
    IF v = <<>> THEN <<>>
    ELSE (IF Head(v) = "\\" THEN <<"\\", "\\">> ELSE <<Head(v)>>) \o text_escape(Tail(v))

\* two hex digits for every byte
RECURSIVE b2a_hex(_)
b2a_hex(n) == IF n = 0 THEN <<>> ELSE <<"h", "h">> \o b2a_hex(n - 1)

_lazy_binary(n) == b2a_hex(n)

\* the encoders return the token and the lazy stack they leave
Text(val, lazy) == [s |-> text_escape(val.v), lazy |-> lazy]
Binary(val, lazy) ==
    IF val.n > LazyMin
    THEN [s |-> <<"\\", "\\", "x", LAZY_PLACEHOLDER>>, lazy |-> Append(lazy, val.n)]
    ELSE [s |-> <<"\\", "\\", "x">> \o b2a_hex(val.n), lazy |-> lazy]
EncodeField(val, lazy) == IF val.k = "T" THEN Text(val, lazy) ELSE Binary(val, lazy)

\* '\t'.join([enc(el, fname, lazy) ..]) from field k on
RECURSIVE JoinTokens(_, _, _)
JoinTokens(row, k, lazy) ==
    IF k > Len(row) THEN [s |-> <<>>, lazy |-> lazy]
    ELSE LET e == EncodeField(row[k], lazy)
             r == JoinTokens(row, k + 1, e.lazy)
         IN [s |-> e.s \o (IF k < Len(row) THEN <<"TAB">> ELSE <<>>) \o r.s,
             lazy |-> r.lazy]
\* the line of an object: the joined tokens and b'\n'
RowLine(row, lazy) ==
    LET j == JoinTokens(row, 1, lazy) IN [s |-> j.s \o <<"NL">>, lazy |-> j.lazy]

\* data.index(LAZY_PLACEHOLDER_BYTE, idx), counted from 0; -1 for ValueError
DataIndex(data, idx) ==
    LET at == {j \in (idx + 1)..Len(data) : data[j] = LAZY_PLACEHOLDER}
    IN IF at = {} THEN 0 - 1 ELSE (CHOOSE j \in at : \A k \in at : j <= k) - 1

\* write_lazy from position idx on; f is what the file has taken
RECURSIVE write_lazy_from(_, _, _, _)
write_lazy_from(f, data, stack, idx) ==
    IF stack = <<>>
    THEN [f |-> f \o SubSeq(data, idx + 1, Len(data)), err |-> "none"]
    ELSE LET at == DataIndex(data, idx)
         IN IF at < 0 THEN [f |-> f, err |-> "ValueError"]
            ELSE write_lazy_from(f \o SubSeq(data, idx + 1, at) \o _lazy_binary(Head(stack)),
                                 data, Tail(stack), at + 1)
write_lazy(f, data, stack) == write_lazy_from(f, data, stack, 0)

\* the call of write_lazy on the payload, to file "fw" (the write end of the
\* pipe) or "f" (the BytesIO of buffered mode); the call is recorded in wl,
\* the stack entries it has run in used
CallWriteLazy(c, file, clear) ==
    LET w == write_lazy(c[file], c.payload, c.lazy)
        d == [c EXCEPT ![file] = w.f, !.used = @ \o c.lazy,
                       !.wl = [called |-> TRUE, data |-> c.payload, stack |-> c.lazy,
                               before |-> c[file], after |-> w.f]]
    IN IF w.err # "none" THEN [d EXCEPT !.pc = "raised"]
       ELSE IF clear THEN [d EXCEPT !.lazy = <<>>, !.payload = <<>>]
       ELSE d

\* while length - pos > 65535: pos += 65536
RECURSIVE FullChunks(_, _)
FullChunks(length, pos) ==
    IF length - pos > ChunkSize - 1 THEN FullChunks(length, pos + ChunkSize) ELSE pos

\* if not use_thread: os.pipe(), Thread(..).start()
OpenPipe_always(c) ==
    [c EXCEPT !.use_thread = TRUE, !.pipes = @ + 1, !.threads = @ + 1,
              !.at_switch = Len(c.payload)]
OpenPipe(c) ==
    IF c.use_thread THEN c
    ELSE [c EXCEPT !.use_thread = TRUE, !.pipes = @ + 1, !.threads = @ + 1,
                   !.at_switch = Len(c.payload)]

\* the payload above 64k goes to fw: all of it through write_lazy, or its
\* full chunks with the rest carried forward
WriteChunks(c) ==
    IF c.lazy # <<>> THEN CallWriteLazy(c, "fw", TRUE)
    ELSE LET pos == FullChunks(Len(c.payload), 0)
         IN [c EXCEPT !.fw = @ \o SubSeq(c.payload, 1, pos),
                      !.payload = SubSeq(c.payload, pos + 1, Len(c.payload))]

\* the body of for o in data
LoopBody(c) ==
    LET e == RowLine(c.data[c.i + 1], c.lazy)
        d == [c EXCEPT !.i = @ + 1, !.payload = @ \o e.s, !.lazy = e.lazy,
                       !.wl = [called |-> FALSE]]
    IN IF Len(d.payload) > ChunkSize - 1
       THEN WriteChunks(OpenPipe([d EXCEPT !.over = @ + 1]))
       ELSE d

\* after the loop in threaded mode: the rest of the payload, fw.close()
LastWrite(c) ==
    LET d == IF c.payload = <<>> THEN c
             ELSE IF c.lazy # <<>> THEN CallWriteLazy(c, "fw", FALSE)
             ELSE [c EXCEPT !.fw = @ \o c.payload]
    IN IF d.pc = "raised" THEN d ELSE [d EXCEPT !.pc = "join"]

\* after the loop in buffered mode: c.copy_from(f, ..) on a BytesIO
DirectWrite(c) ==
    IF c.payload = <<>> THEN [c EXCEPT !.pc = "returned"]
    ELSE LET d == IF c.lazy # <<>> THEN CallWriteLazy(c, "f", FALSE)
                  ELSE [c EXCEPT !.f = c.payload]
         IN IF d.pc = "raised" THEN d
            ELSE [d EXCEPT !.pc = "returned", !.sink = d.f, !.direct = TRUE]

TextVals == {<<>>, <<"a">>, <<"\\">>, <<"NUL">>, <<"a", "a", "a">>, <<"a", "NUL">>}
FieldVals(k) ==
    IF k = "T" THEN {[k |-> "T", v |-> v] : v \in TextVals}
    ELSE {[k |-> "B", n |-> n] : n \in 0..MaxBin}
Schemas == {<<"T">>, <<"B">>, <<"T", "B">>, <<"B", "T">>}
RowsOf(kinds) ==
    {row \in [1..Len(kinds) -> UNION {FieldVals(k) : k \in {"T", "B"}}] :
        \A j \in 1..Len(kinds) : row[j].k = kinds[j]}
StartBytes(data) ==
    [pc |-> "loop", data |-> data, i |-> 0, payload |-> <<>>, lazy |-> <<>>,
     use_thread |-> FALSE, pipes |-> 0, threads |-> 0, at_switch |-> 0,
     over |-> 0, fw |-> <<>>, f |-> <<>>, sink |-> <<>>, direct |-> FALSE,
     used |-> <<>>,
     wl |-> [called |-> FALSE]]

InitBytes ==
    /\ table = [pk \in PKs |-> InitRow(pk)]
    /\ call = IdleCall
    /\ arr = NoArray
    /\ ENCODERS = DefaultEncoders
    /\ registered = NoCalls
    /\ lookup = NoLookup
    /\ SEEN_CONNECTIONS = NothingSeen
    /\ seen = NoVendorCalls
    /\ \E kinds \in Schemas : \E n \in 0..SerRows :
        cf \in {StartBytes(data) : data \in [1..n -> RowsOf(kinds)]}

\* one object of the loop
BytesRow ==
    /\ cf.pc = "loop"
    /\ cf.i < Len(cf.data)
    /\ cf' = LoopBody(cf)
    /\ UNCHANGED restvars

\* the end of the loop
BytesEnd ==
    /\ cf.pc = "loop"
    /\ cf.i = Len(cf.data)
    /\ cf' = IF cf.use_thread THEN LastWrite(cf) ELSE DirectWrite(cf)
    /\ UNCHANGED restvars

\* threaded_copy: c.copy_from reads size bytes of what fw has taken, or
\* what is left of it when fw is closed
BytesRead ==
    /\ cf.use_thread
    /\ Len(cf.sink) < Len(cf.fw)
    /\ LET m == IF Len(cf.fw) - Len(cf.sink) >= ChunkSize THEN ChunkSize
                ELSE IF cf.pc = "join" THEN Len(cf.fw) - Len(cf.sink)
                ELSE 0
       IN /\ m > 0
          /\ cf' = [cf EXCEPT !.sink = SubSeq(cf.fw, 1, Len(cf.sink) + m)]
    /\ UNCHANGED restvars

\* t.join() returns when the worker has read all up to the end of file
BytesJoin ==
    /\ cf.pc = "join"
    /\ cf.sink = cf.fw
    /\ cf' = [cf EXCEPT !.pc = "returned"]
    /\ UNCHANGED restvars

NextBytes ==
    \/ BytesRow
    \/ BytesEnd
    \/ BytesRead
    \/ BytesJoin

SpecBytes == InitBytes /\ [][NextBytes]_vars

(* ------------------------ fast.py: get_vendor cache ------------------- *)
\* what a connection is connected to: conn.vendor with the sqlite version
\* and the mysql dialect get_vendor tells apart
Backends ==
    {"postgresql", "sqlite>=3.33", "sqlite>=3.15", "sqlite<3.15",
     "mariadb", "mysql8", "mysql<8", "oracle"}
Conns == 1..MaxConns
None == "None"
ProbeValues == "SELECT foo.0 FROM (VALUES ..)"
ProbeValuesRow == "SELECT column_1 FROM (VALUES ROW ..)"

\* get_vendor past the cache: the vendor name and the probe statements executed
Probe(backend) ==
    IF backend = "postgresql" THEN [vendor |-> "postgresql", probes |-> <<>>]
    ELSE IF backend = "sqlite>=3.33" THEN [vendor |-> "sqlite", probes |-> <<>>]
    ELSE IF backend = "sqlite>=3.15" THEN [vendor |-> "sqlite_cte", probes |-> <<>>]
    ELSE IF backend = "sqlite<3.15" THEN [vendor |-> "", probes |-> <<>>]
    ELSE IF backend = "mariadb" THEN [vendor |-> "mysql", probes |-> <<ProbeValues>>]
    ELSE IF backend = "mysql8"
    THEN [vendor |-> "mysql8", probes |-> <<ProbeValues, ProbeValuesRow>>]
    ELSE IF backend = "mysql<8"
    THEN [vendor |-> "", probes |-> <<ProbeValues, ProbeValuesRow>>]
    ELSE [vendor |-> "", probes |-> <<>>]

\* SEEN_CONNECTIONS.get(conn)
SeenGet(S, conn) == IF conn \in DOMAIN S THEN S[conn] ELSE None
\* SEEN_CONNECTIONS[conn] = vendor
SeenSet(S, conn, vendor) ==
    [c \in DOMAIN S \cup {conn} |-> IF c = conn THEN vendor ELSE S[c]]

\* (the cache read with 'if vendor:')
get_vendor_cached_truthy(S, conn, backend) ==
    LET vendor == SeenGet(S, conn)
        p == Probe(backend)
    IN IF vendor # None /\ vendor # ""
       THEN [ret |-> vendor, S |-> S, probes |-> <<>>, wrote |-> FALSE]
       ELSE [ret |-> p.vendor, S |-> SeenSet(S, conn, p.vendor), probes |-> p.probes,
             wrote |-> TRUE]
\* get_vendor(conn) on the cache S: what it returns, the cache after it, the
\* probes it executed and whether it wrote the entry
get_vendor_cached(S, conn, backend) ==
    LET vendor == SeenGet(S, conn)
        p == Probe(backend)
    IN IF vendor # None
       THEN [ret |-> vendor, S |-> S, probes |-> <<>>, wrote |-> FALSE]
       ELSE [ret |-> p.vendor, S |-> SeenSet(S, conn, p.vendor), probes |-> p.probes,
             wrote |-> TRUE]

InitVendor ==
    /\ table = [pk \in PKs |-> InitRow(pk)]
    /\ call = IdleCall
    /\ arr = NoArray
    /\ ENCODERS = DefaultEncoders
    /\ registered = NoCalls
    /\ lookup = NoLookup
    /\ cf = NoCopy
    /\ SEEN_CONNECTIONS = NothingSeen
    /\ \E backend \in [Conns -> Backends] :
        seen = [calls |-> 0, backend |-> backend, writes |-> [c \in Conns |-> 0],
                first |-> [c \in Conns |-> None], last |-> [conn |-> 0]]

GetVendor ==
    /\ seen.calls < MaxCalls
    /\ \E conn \in Conns :
        LET r == get_vendor_cached(SEEN_CONNECTIONS, conn, seen.backend[conn])
        IN /\ SEEN_CONNECTIONS' = r.S
           /\ seen' = [seen EXCEPT
                         !.calls = @ + 1,
                         !.writes[conn] = IF r.wrote THEN @ + 1 ELSE @,
                         !.first[conn] = IF r.wrote /\ @ = None THEN r.ret ELSE @,
                         !.last = [conn |-> conn, ret |-> r.ret, probes |-> r.probes,
                                   before |-> SeenGet(SEEN_CONNECTIONS, conn)]]
    /\ UNCHANGED <<table, call, arr, regvars, cf>>

NextVendor == GetVendor

SpecVendor == InitVendor /\ [][NextVendor]_vars

(* ------------------------------- claims ------------------------------- *)
\* the plans the strategy invocations of the call took, in order
PlansOf(c) == [i \in 1..Len(c.inv) |-> c.inv[i].plan]
TookMergedPlan(c) == \E i \in 1..Len(c.inv) : c.inv[i].plan = "merged"

\* C1: for a batch of objects with distinct primary keys and a non-empty
\* field list, merged_update leaves the table in the state flat_update leaves
\* it in for the same queryset, objects and fields.
C1_MergedLikeFlat ==
    (/\ call.impl = "merged_update"
     /\ call.err = "none"
     /\ ~HasDuplicates(call.objs)
     /\ call.fields # <<>>)
    => table = flat_update(call.pre, 0, call.where, call.objs,
                           call.fields, call.unfiltered).t

UpdateImpls == {"fast_update", "fast.fast_update", "copy_update", "flat_update", "merged_update"}
Succeeded(c) == c.impl \in UpdateImpls /\ c.err = "none"

\* C2: a successful fast_update, copy_update, flat_update or merged_update
\* changes only rows whose primary key is the primary key of a passed object,
\* and in those rows only the columns of the named fields; no row appears or
\* disappears.
C2_Frame ==
    Succeeded(call) =>
        /\ DOMAIN table = DOMAIN call.pre
        /\ \A pk \in DOMAIN table : \A c \in ColSet :
              table[pk][c] # call.pre[pk][c]
                  => pk \in ObjPks(call.objs) /\ c \in SeqRange(call.fields)

\* a successful call of the copy path changed a row while another row and
\* another column lay outside the call
C2_Witness ==
    /\ Succeeded(call)
    /\ call.impl = "copy_update"
    /\ table # call.pre
    /\ PKs \ ObjPks(call.objs) # {}
    /\ ColSet \ SeqRange(call.fields) # {}

\* The statements of a call fall into passes: those of one strategy
\* invocation, those of the VALUES or staging-table join, and those of the
\* delegation to bulk_update. RowsMatched is the largest number of rows the
\* statements of one pass matched.
PassOf(e) == <<e.inv, e.op = "case">>
Passes(c) == {PassOf(c.log[i]) : i \in 1..Len(c.log)}
PassHit(c, p) == UNION {c.log[i].hit : i \in {j \in 1..Len(c.log) : PassOf(c.log[j]) = p}}
RowsMatched(c) ==
    IF Passes(c) = {} THEN 0
    ELSE CHOOSE m \in {Cardinality(PassHit(c, p)) : p \in Passes(c)} :
            \A p \in Passes(c) : Cardinality(PassHit(c, p)) <= m

\* C3: the integer a successful call returns is the number of rows the
\* database reported as matched by the executed statements, also when objects
\* have no row or their row is excluded by the queryset filter (objects with
\* pairwise distinct primary keys).
C3_ReturnsRowsMatched ==
    (Succeeded(call) /\ ~HasDuplicates(call.objs)) => call.ret = RowsMatched(call)

\* the planner's decision for a batch and a field list: at least 3 objects
\* and a predicted cost ratio below 0.8
MergedChosen(objs, fields) ==
    /\ Len(objs) >= MergeMinObjs
    /\ LET mv == _merge_values(objs, fields)
           p == predictor(objs, fields, mv.merged_updates, mv.flat_residues)
       IN p.num * ThresholdDen < ThresholdNum * p.den

\* the statements are those of the merged plan of the batch for the fields:
\* one per merged group, then one per residue object
IsMergedPlan(st, objs, fields) ==
    LET mv == _merge_values(objs, fields)
        ng == Len(mv.merged_updates)
    IN /\ Len(st) = ng + Len(mv.flat_residues)
       /\ \A j \in 1..ng :
             /\ st[j].pks = mv.merged_updates[j].key
             /\ st[j].cols = DOMAIN mv.merged_updates[j].data
       /\ \A j \in 1..Len(mv.flat_residues) :
             /\ st[ng + j].pks = {mv.flat_residues[j].key}
             /\ st[ng + j].cols = DOMAIN mv.flat_residues[j].data

\* the statements are those of the flat plan: exactly one per object, in
\* caller order, setting the fields
IsFlatPlan(st, objs, fields) ==
    /\ Len(st) = Len(objs)
    /\ \A j \in 1..Len(objs) :
          st[j].pks = {objs[j].pk} /\ st[j].cols = SeqRange(fields)

InvocationFields(c) ==
    IF ~c.unfiltered /\ c.where # "none" THEN <<c.fields>>
    ELSE SelectSeq(<<SelectSeq(c.fields, LAMBDA f : f \in LocalCols),
                     SelectSeq(c.fields, LAMBDA f : f \notin LocalCols)>>,
                   LAMBDA g : g # <<>>)
StatementsOf(c, k) == SelectSeq(c.log, LAMBDA e : e.inv = k)

SharesMore(o2, o1, fields) ==
    /\ Len(o2) = Len(o1)
    /\ \A i \in 1..Len(o1) : o2[i].pk = o1[i].pk
    /\ \A f \in SeqRange(fields) : \A i, j \in 1..Len(o1) :
          o1[i].vals[f] = o1[j].vals[f] => o2[i].vals[f] = o2[j].vals[f]

\* the plan merged_update takes for the named fields in the state before the call
PlanTaken(c, objs) ==
    PlansOf(merged_update(c.pre, 0, c.where, objs, c.fields, c.unfiltered))

\* C5: for a fixed object count and field list, when merged_update takes the
\* merged plan for a batch, it takes the merged plan for every batch in which
\* more objects share an equal value on some field.
C5_MoreSharingStaysMerged ==
    (/\ call.impl = "merged_update"
     /\ call.objs \in PlainBatches(call.fields)
     /\ PlansOf(call) = <<"merged">>)
    => \A o2 \in PlainBatches(call.fields) :
          SharesMore(o2, call.objs, call.fields) => PlanTaken(call, o2) = <<"merged">>

\* what the caller of the queryset's fast_update must not do
CallerViolation(c) ==
    \/ c.batch_size < 0
    \/ c.fields = <<>>
    \/ NoPk \in ObjPks(c.objs)
    \/ \E f \in SeqRange(c.fields) : ~IsConcrete(f) \/ IsPrimaryKey(f)

\* C6: fast_update raises ValueError for a negative batch_size, an empty or
\* missing field list, an object without primary key, a named field that is
\* not concrete and a named field that is the primary key; it does so before
\* any statement is executed, and the table is unchanged.
C6_SanityChecks ==
    (call.impl = "fast_update" /\ CallerViolation(call)) =>
        /\ call.err \in ValueErrors
        /\ call.batch_size < 0 => call.err = ErrBatchSize
        /\ call.log = <<>>
        /\ call.mid = call.pre
        /\ table = call.pre

\* fast_update rejected a batch whose only fault is an object without primary key
C6_Witness ==
    /\ call.impl = "fast_update"
    /\ call.err = ErrNoPk
    /\ Len(call.objs) > 1
    /\ call.fields \in FieldLists

ErrDuplicates == "ValueError: cannot update duplicates"

\* C7: fast_update with two objects of the same primary key is rejected with
\* ValueError 'cannot update duplicates' and applies none of the values.
C7_RejectsDuplicates ==
    (/\ call.impl = "fast_update"
     /\ HasDuplicates(call.objs)
     /\ ~CallerViolation(call))
    => call.err = ErrDuplicates /\ table = call.pre

ErrExpression == "ValueError: fast_update() cannot be used with f-expressions."

\* C8: fast_update with an object that holds an expression in a named field
\* raises ValueError 'fast_update() cannot be used with f-expressions.' and
\* the rows keep their previous values.
C8_RejectsExpressions ==
    (/\ call.impl = "fast_update"
     /\ HasExpression(call.objs, call.fields)
     /\ ~CallerViolation(call))
    => call.err = ErrExpression /\ table = call.pre

\* C9: when a statement or an encoding step of fast_update, copy_update,
\* flat_update or merged_update raises, also after earlier statements of the
\* call modified rows, the exception reaches the caller and the table is in
\* its state before the call.
C9_RolledBack ==
    (call.impl \in UpdateImpls /\ call.err # "none") => table = call.pre

\* a later batch of fast_update failed in the preparation of a value after an
\* earlier batch had modified rows
C9_Witness ==
    /\ call.impl = "fast.fast_update"
    /\ call.err = "TypeError"
    /\ call.log # <<>>
    /\ call.mid # call.pre
    /\ table = call.pre

\* the row an object's values make of a row
Updated(row, o, fields) == Assign(row, RowData(o, fields))

\* C10: on a filtered queryset fast_update, flat_update and merged_update
\* leave the rows of passed objects that do not satisfy the filter unchanged
\* and give the rows that satisfy it their objects' values, unless unfiltered
\* is set: then the row of every passed object gets its values.
C10_Prefiltering ==
    (/\ Succeeded(call)
     /\ call.impl \in {"fast_update", "fast.fast_update", "flat_update", "merged_update"}
     /\ call.where # "none"
     /\ call.objs \in PlainBatches(call.fields))
    => \A i \in 1..Len(call.objs) :
          LET pk == call.objs[i].pk
          IN pk \in DOMAIN table =>
                table[pk] = IF call.unfiltered \/ Matches(call.where, call.pre[pk])
                            THEN Updated(call.pre[pk], call.objs[i], call.fields)
                            ELSE call.pre[pk]

\* The row count each path of a call came back with, in the order the paths
\* ran: a strategy invocation on the merged plan returns the number of
\* objects, on the flat plan the sum of the rowcounts of its statements; the
\* VALUES or staging-table path and the delegation to bulk_update return the
\* sum of the rowcounts of their statements.
RECURSIVE SumRc(_, _)
SumRc(st, i) == IF i > Len(st) THEN 0 ELSE st[i].rc + SumRc(st, i + 1)
StrategyCount(c, k) ==
    IF c.inv[k].plan = "merged" THEN c.inv[k].n ELSE SumRc(StatementsOf(c, k), 1)
LocalCount(c) == SumRc(SelectSeq(c.log, LAMBDA e : e.op \in {"values", "from_temp"}), 1)
DelegatedCount(c) == SumRc(SelectSeq(c.log, LAMBDA e : e.op = "case"), 1)
\* the call ran a local and a delegated path
RanBothPaths(c) ==
    /\ c.impl \in {"fast_update", "fast.fast_update", "copy_update"}
    /\ c.objs # <<>>
    /\ \E i \in 1..Len(c.log) : c.log[i].op \in {"values", "from_temp"}
    /\ \E i \in 1..Len(c.log) : c.log[i].op = "case"
PathCounts(c) ==
    IF c.impl \in {"flat_update", "merged_update"}
    THEN [k \in 1..Len(c.inv) |-> StrategyCount(c, k)]
    ELSE <<LocalCount(c), DelegatedCount(c)>>
MaxOf(counts) ==
    CHOOSE m \in SeqRange(counts) : \A k \in 1..Len(counts) : counts[k] <= m

\* C11: a successful call that ran a local and a delegated path (fast_update,
\* copy_update) or several strategy invocations, one per model (flat_update,
\* merged_update), returns the maximum of the row counts of its paths.
C11_MaxOfPaths ==
    (/\ Succeeded(call)
     /\ \/ RanBothPaths(call)
        \/ call.impl \in {"flat_update", "merged_update"} /\ Len(call.inv) >= 2)
    => call.ret = MaxOf(PathCounts(call))

\* copy_update matched rows on both paths, fewer on the delegated one, so the
\* maximum is neither the sum nor the last count
C11_Witness ==
    /\ Succeeded(call)
    /\ call.impl = "copy_update"
    /\ RanBothPaths(call)
    /\ DelegatedCount(call) > 0
    /\ LocalCount(call) > DelegatedCount(call)
    /\ call.ret = LocalCount(call)

\* the statements of the local path (VALUES join, COPY into the staging table,
\* join with the staging table) and of the delegation to bulk_update
LocalStatements(c) == SelectSeq(c.log, LAMBDA e : e.op \in {"values", "copy", "from_temp"})
CaseStatements(c) == SelectSeq(c.log, LAMBDA e : e.op = "case")
RECURSIVE SumPks(_, _)
SumPks(st, i) == IF i > Len(st) THEN 0 ELSE Cardinality(st[i].pks) + SumPks(st, i + 1)

\* C12: a successful copy_update or fast_update on a supported backend names
\* in its VALUES and staging-table statements exactly the local fields among
\* the named ones; when a named field is non-local, bulk_update gets every
\* object once and sets the non-local fields (in fast.py and copy.py: these
\* only) to the objects' values; when no named field is local, no VALUES or
\* staging-table statement runs and the result is that of bulk_update.
C12_Partition ==
    (/\ Succeeded(call)
     /\ call.impl \in {"fast_update", "fast.fast_update", "copy_update"}
     /\ get_vendor(call.vendor) # ""
     /\ call.objs # <<>>)
    => LET loc == SeqRange(call.fields) \cap LocalCols
           non == SeqRange(call.fields) \ LocalCols
           ls == LocalStatements(call)
           cs == CaseStatements(call)
       IN /\ \A i \in 1..Len(ls) : ls[i].cols = loc /\ ls[i].cols \subseteq LocalCols
          /\ loc = {} => ls = <<>> /\ call.ret = DelegatedCount(call)
          /\ non = {} => cs = <<>>
          /\ non # {} =>
                /\ cs # <<>>
                /\ \A i \in 1..Len(cs) : non \subseteq cs[i].cols
                /\ call.impl # "fast_update" => \A i \in 1..Len(cs) : cs[i].cols = non
                /\ ~HasDuplicates(call.objs) => SumPks(cs, 1) = Len(call.objs)
                /\ (PlainBatch(call.objs, call.fields) /\ call.where = "none") =>
                      \A i \in 1..Len(call.objs) : \A c \in non :
                          call.objs[i].pk \in DOMAIN table =>
                              table[call.objs[i].pk][c] = call.objs[i].vals[c]

\* fast_update of fast.py ran two VALUES statements for the local fields and
\* handed the non-local field to bulk_update in two batches
C12_Witness ==
    /\ Succeeded(call)
    /\ call.impl = "fast.fast_update"
    /\ call.fields = <<"s1", "b1">>
    /\ call.batch_size = 1
    /\ Len(LocalStatements(call)) = 2
    /\ Len(CaseStatements(call)) = 2
    /\ table # call.pre

\* copy_update ran with a list or tuple for an array field of depth 2 or more
MultiDimCall(a) == a.stage = "done" /\ IsSeq(a.v) /\ a.depth >= 2

\* C13: copy_update with a multi-dimensional array value for which
\* is_balanced(value, depth) is false raises the unbalanced-array error, and
\* no SQL statement of the call has been executed when it raises.
C13_UnbalancedRaisesBeforeSql ==
    (MultiDimCall(arr) /\ ~is_balanced(arr.v, arr.depth))
    => arr.err = ErrUnbalanced /\ arr.sql = <<>>

\* the elements d levels below the value, descending through lists and tuples
RECURSIVE ElementsAt(_, _)
ElementsAt(v, d) ==
    IF d = 0 THEN {v}
    ELSE UNION {SeqRange(x.e) : x \in {y \in ElementsAt(v, d - 1) : IsSeq(y)}}
\* the sub-arrays of every nesting depth below the declared one agree: all are
\* arrays of one length, or none is an array
Rectangular(v, depth) ==
    \A d \in 1..(depth - 1) :
        \A x, y \in ElementsAt(v, d) :
            /\ IsSeq(x) = IsSeq(y)
            /\ IsSeq(x) => Len(x.e) = Len(y.e)

\* C14: for an array field of declared depth 2 or more, a value that is not
\* rectangular at some nesting depth below the declared depth is rejected
\* with the unbalanced-array error and nothing of it is rendered.
C14_NonRectangularRejected ==
    (MultiDimCall(arr) /\ ~Rectangular(arr.v, arr.depth))
    => arr.err = ErrUnbalanced /\ arr.wire = <<>>

\* the value is an empty array, or all its elements are None or such
\* collapsing arrays and at least one of them is an array
RECURSIVE Collapses(_)
Collapses(v) ==
    /\ IsSeq(v)
    /\ \/ v.e = <<>>
       \/ /\ \A i \in 1..Len(v.e) : v.e[i] = NoneVal \/ Collapses(v.e[i])
          /\ \E i \in 1..Len(v.e) : Collapses(v.e[i])
AllNone(v) == v.e # <<>> /\ \A i \in 1..Len(v.e) : v.e[i] = NoneVal
RECURSIVE NullList(_)
NullList(n) == IF n = 1 THEN <<"NULL">> ELSE NullList(n - 1) \o <<",", "NULL">>

\* C15: the encoder renders a top-level list or tuple as '{}' exactly when
\* it is empty or all its elements are None or collapsing empty arrays, at
\* least one of them such an array; a value of None elements only renders one
\* NULL per element.
C15_EmptyReduction ==
    (arr.stage = "done" /\ IsSeq(arr.v)) =>
        /\ (arr.err = "none" /\ arr.wire = <<"{", "}">>) <=> Collapses(arr.v)
        /\ AllNone(arr.v) =>
              arr.err = "none" /\ arr.wire = <<"{">> \o NullList(Len(arr.v.e)) \o <<"}">>

\* a class has an entry by the module's defaults or by a registration; its
\* entry is that of the last registration for it, else the default one
Known(c) == c \in DOMAIN registered.last \/ c \in DOMAIN DefaultEncoders
EntryOf(c) ==
    IF c \in DOMAIN registered.last
    THEN LET r == registered.last[c]
         IN <<r.encoder, IF r.encoder_none = Omitted THEN r.encoder ELSE r.encoder_none>>
    ELSE DefaultEncoders[c]
\* the encoder of the nearest class with an entry in the hierarchy of cls, for
\* the null setting; the no-encoder error when no class has one
ExpectedOfClass(cls, null) ==
    LET at == {i \in 1..Len(Mro(cls)) : Known(Mro(cls)[i])}
    IN IF at = {} THEN NoEncoder
       ELSE LET i == CHOOSE x \in at : \A y \in at : x <= y
            IN Encoder(EntryOf(Mro(cls)[i])[IF null THEN 2 ELSE 1])
\* the registry holds, for every class, the entry of its last registration
RegistryIsLatest ==
    \A c \in FieldClasses :
        /\ c \in DOMAIN ENCODERS <=> Known(c)
        /\ Known(c) => ENCODERS[c] = EntryOf(c)

\* C16 as stated: get_encoder returns for every field the encoder of the most
\* recent registration of the nearest registered class in the hierarchy of
\* the field's class, chosen by the field's null setting, and raises the
\* no-encoder error when there is none; it leaves the registry unchanged, and
\* a registration changes the entry of its class only.
C16_AsStated ==
    /\ RegistryIsLatest
    /\ lookup.done =>
          /\ ENCODERS = lookup.pre
          /\ lookup.got = ExpectedOfClass(lookup.field.cls, lookup.field.null)

\* C16 (amended): this holds for a field that is neither a relation nor an
\* array field. A relation field gets the encoder its target field's class
\* resolves to, chosen by the relation's null setting; an array field gets the
\* array encoder built from the encoder of its innermost base field (chosen
\* by the base field's null setting), its number of dimensions and its own
\* null setting, and the no-encoder error when the base field has no encoder.
\* Entries for relation and array classes are never consulted.
C16_Resolution ==
    /\ RegistryIsLatest
    /\ lookup.done =>
          /\ ENCODERS = lookup.pre
          /\ lookup.got =
                LET f == lookup.field
                IN IF IsRelated(f) THEN ExpectedOfClass(f.to[1].cls, f.null)
                   ELSE IF IsArray(f)
                   THEN LET b == ExpectedOfClass(ArrayBase(f).cls, ArrayBase(f).null)
                        IN IF b.err # "none" THEN b
                           ELSE ArrayEncoder(b.enc, ArrayDepth(f), f.null)
                   ELSE ExpectedOfClass(f.cls, f.null)

\* Field and CustomField are registered with different encoders, CustomField
\* without a nullable encoder; a nullable CustomField resolves to the encoder
\* of CustomField
C16_Witness ==
    /\ lookup.done
    /\ lookup.field = PlainField("CustomField", TRUE)
    /\ DOMAIN registered.last = {"Field", "CustomField"}
    /\ registered.last["CustomField"].encoder_none = Omitted
    /\ registered.last["CustomField"].encoder # registered.last["Field"].encoder
    /\ lookup.got = Encoder(registered.last["CustomField"].encoder)

\* C17: on a connection whose backend get_vendor does not support, fast_update
\* executes no VALUES statement; the call is the call of bulk_update with the
\* named fields and the batch size as given: it executes bulk_update's
\* statements, returns what bulk_update returns and raises nothing but what
\* bulk_update raises.
C17_Fallback ==
    (/\ call.impl \in {"fast_update", "fast.fast_update"}
     /\ call.vendor # "postgresql"
     /\ ~CallerViolation(call))
    => LET b == bulk_update(NewRun(call.pre, call.failAt), call.where, call.objs,
                            call.fields, call.batch_size)
       IN /\ \A i \in 1..Len(call.log) :
                call.log[i].op = "case" /\ call.log[i].cols = SeqRange(call.fields)
          /\ call.log = b.log
          /\ call.err = b.err
          /\ call.ret = b.ret
          /\ b.err = "none" => table = b.t
          /\ (PlainBatch(call.objs, call.fields) /\ call.failAt = 0) => call.err = "none"

\* fast_update of fast.py on an unsupported backend updated rows for local
\* and non-local fields in two bulk_update batches
C17_Witness ==
    /\ call.impl = "fast.fast_update"
    /\ call.vendor # "postgresql"
    /\ call.err = "none"
    /\ call.fields = <<"s1", "s2", "b1">>
    /\ call.batch_size = 1
    /\ Len(call.log) = 2
    /\ call.ret = 2
    /\ table # call.pre

(* C18: on every exit of copy_from after the switch to threaded mode, by
   return or by an exception of an encoder or lazy writer on a later row,
   both pipe ends are closed and the worker thread has been joined. *)
LeftCopyFrom == cf.pc \in {"returned", "raised"}
C18_ClosedAndJoined ==
    (LeftCopyFrom /\ cf.use_thread) =>
        (cf.fw = "closed" /\ cf.fr = "closed" /\ cf.joined /\ cf.t # "running")

(* C19: every copy_from call eventually returns or raises, also when the
   worker's transfer stops reading the pipe before all data are written. *)
C19_Terminates == <>LeftCopyFrom

(* C20: when the transfer of the worker thread raises, copy_update ends with
   an error and never returns a row count. *)
C20_WorkerFailureRaises ==
    (cf.pc # "none" /\ cf.t = "failed" /\ cf.cu # "running") => cf.cu = "raised"

(* C21: the bytes delivered to the transfer sink are the lines of the rows
   in the order of the objects, every lazy placeholder replaced by the
   output of its writer, in buffered and in threaded mode. *)
RefToken(val) ==
    IF val.k = "T" THEN text_escape(val.v) ELSE <<"\\", "\\", "x">> \o b2a_hex(val.n)
RECURSIVE RefLine(_, _)
RefLine(row, k) ==
    IF k > Len(row) THEN <<"NL">>
    ELSE RefToken(row[k]) \o (IF k < Len(row) THEN <<"TAB">> ELSE <<>>) \o RefLine(row, k + 1)
RECURSIVE RefBytes(_, _)
RefBytes(data, i) == IF i > Len(data) THEN <<>> ELSE RefLine(data[i], 1) \o RefBytes(data, i + 1)
C21_SinkIsConcatenation == cf.pc = "returned" => cf.sink = RefBytes(cf.data, 1)

(* C22: at every call of write_lazy the buffer holds as many placeholder
   bytes as there are pending lazy entries, the k-th placeholder is replaced
   by the output of the k-th entry, and every entry is run exactly once. *)
Placeholders(data) == {j \in 1..Len(data) : data[j] = LAZY_PLACEHOLDER}
RECURSIVE Spliced(_, _)
Spliced(data, stack) ==
    IF data = <<>> THEN <<>>
    ELSE IF Head(data) = LAZY_PLACEHOLDER /\ stack # <<>>
    THEN _lazy_binary(Head(stack)) \o Spliced(Tail(data), Tail(stack))
    ELSE <<Head(data)>> \o Spliced(Tail(data), stack)
RECURSIVE LazyOfRow(_, _)
LazyOfRow(row, k) ==
    IF k > Len(row) THEN <<>>
    ELSE (IF row[k].k = "B" /\ row[k].n > LazyMin THEN <<row[k].n>> ELSE <<>>)
         \o LazyOfRow(row, k + 1)
RECURSIVE LazyOf(_, _)
LazyOf(data, i) == IF i > Len(data) THEN <<>> ELSE LazyOfRow(data[i], 1) \o LazyOf(data, i + 1)
C22_PlaceholdersMatchLazy ==
    /\ cf.wl.called =>
        /\ Cardinality(Placeholders(cf.wl.data)) = Len(cf.wl.stack)
        /\ cf.wl.after = cf.wl.before \o Spliced(cf.wl.data, cf.wl.stack)
        /\ Placeholders(cf.wl.after) = Placeholders(cf.wl.before)
    /\ cf.pc = "returned" => cf.used = LazyOf(cf.data, 1)

(* C23: copy_from opens the pipe and starts the worker at most once, only
   with a payload above the threshold; from then on it stays in threaded
   mode and hands nothing to a direct transfer. *)
C23_SwitchOnce ==
    /\ cf.pipes <= 1
    /\ cf.threads = cf.pipes
    /\ cf.use_thread <=> cf.pipes = 1
    /\ cf.use_thread <=> cf.over >= 1
    /\ cf.use_thread => (cf.at_switch > ChunkSize - 1 /\ ~cf.direct /\ cf.f = <<>>)
    /\ ~cf.use_thread => cf.fw = <<>>
    /\ (cf.pc = "returned" /\ cf.use_thread) => cf.sink = cf.fw
C23_Witness ==
    /\ cf.pc = "returned"
    /\ cf.over >= 2
    /\ cf.pipes = 1
    /\ cf.sink # <<>>

(* C24: on normal completion in threaded mode copy_from closes the write
   end, then joins the worker, then closes the read end, in this order, and
   the worker has ended before copy_from returns. *)
C24_ClosingOrder ==
    (cf.use_thread /\ cf.pc # "raised") =>
        /\ cf.joined => (cf.fw = "closed" /\ cf.t \in {"done", "failed"})
        /\ cf.fr = "closed" => cf.joined
        /\ cf.pc = "returned" => (cf.fw = "closed" /\ cf.joined /\ cf.fr = "closed")
C24_Witness ==
    /\ cf.use_thread
    /\ cf.pc = "returned"
    /\ cf.t = "done"
    /\ cf.fr = "closed"
    /\ cf.loaded = cf.sent
    /\ cf.sent >= 2

(* C25: a copy_update that returns, its transfer not having failed, has
   executed in one transaction and in this order: DROP TABLE IF EXISTS,
   CREATE TEMPORARY TABLE, the load of all rows, ANALYZE, one UPDATE .. FROM
   the staging table, whose rowcount it returns, and DROP TABLE; the staging
   table does not exist afterwards. *)
OpsOf(sql) == [k \in 1..Len(sql) |-> sql[k].op]
C30_CallerIdleWhileWorkerRuns ==
    \A k \in 1..Len(cf.sql) :
        /\ cf.sql[k].by = "caller" => cf.sql[k].t # "running"
        /\ (cf.use_thread /\ cf.sql[k].op \in {"ANALYZE", "UPDATE", "DROP TABLE"}) =>
              cf.sql[k].joined

(* C26: the cache entry of a connection is written at most once and never
   changes, and a get_vendor call for a connection that has an entry returns
   the stored value and executes no probe, also for the empty string. *)
C26_WriteOnce ==
    /\ \A c \in Conns :
        /\ seen.writes[c] <= 1
        /\ SeenGet(SEEN_CONNECTIONS, c) = seen.first[c]
        /\ seen.writes[c] = 1 <=> c \in DOMAIN SEEN_CONNECTIONS
    /\ (seen.last.conn # 0 /\ seen.last.before # None) =>
        /\ seen.last.ret = seen.last.before
        /\ seen.last.probes = <<>>
C26_Witness ==
    /\ seen.last.conn # 0
    /\ seen.last.before = ""
    /\ seen.last.ret = ""
    /\ seen.backend[seen.last.conn] = "mysql<8"
    /\ seen.writes[seen.last.conn] = 1
    /\ \E c \in Conns : c # seen.last.conn /\ SeenGet(SEEN_CONNECTIONS, c) = "mysql8"

(* C27 as stated: after _merge_values every object of the batch appears in
   exactly one update group, a merged group or a residue entry. *)
MergeCall(c) ==
    /\ c.impl = "merged_update"
    /\ ~CallerViolation(c)
    /\ ~HasDuplicates(c.objs)
    /\ Len(c.objs) >= MergeMinObjs
\* the groups of a merge result that hold the primary key, and those of them
\* that carry the field
GroupsWith(mv, pk) ==
    {<<"merged", j>> : j \in {x \in 1..Len(mv.merged_updates) : pk \in mv.merged_updates[x].key}}
    \cup {<<"residue", j>> : j \in {x \in 1..Len(mv.flat_residues) : pk = mv.flat_residues[x].key}}
GroupData(mv, g) ==
    IF g[1] = "merged" THEN mv.merged_updates[g[2]].data ELSE mv.flat_residues[g[2]].data
Carrying(mv, pk, f) == {g \in GroupsWith(mv, pk) : f \in DOMAIN GroupData(mv, g)}
C27_AsStated ==
    MergeCall(call) =>
        \A k \in 1..Len(InvocationFields(call)) :
            LET mv == _merge_values(call.objs, InvocationFields(call)[k])
            IN \A i \in 1..Len(call.objs) :
                  Cardinality(GroupsWith(mv, call.objs[i].pk)) = 1

(* C27 (amended): after _merge_values, for every named field every object
   of the batch appears in exactly one update group that carries the field,
   a merged group or its residue entry; there is one residue entry per
   object at most. *)
C27_OneGroupPerField ==
    MergeCall(call) =>
        \A k \in 1..Len(InvocationFields(call)) :
            LET fs == InvocationFields(call)[k]
                mv == _merge_values(call.objs, fs)
            IN \A i \in 1..Len(call.objs) :
                  /\ \A f \in SeqRange(fs) :
                        Cardinality(Carrying(mv, call.objs[i].pk, f)) = 1
                  /\ Cardinality({g \in GroupsWith(mv, call.objs[i].pk) : g[1] = "residue"}) <= 1
\* the values of a batch were merged and an object is in a merged group for
\* one field and in its residue for another
C27_Witness ==
    /\ MergeCall(call)
    /\ call.err = "none"
    /\ \E k \in 1..Len(InvocationFields(call)) :
          LET mv == _merge_values(call.objs, InvocationFields(call)[k])
          IN \E i \in 1..Len(call.objs) :
                /\ \E g \in GroupsWith(mv, call.objs[i].pk) : g[1] = "merged"
                /\ \E g \in GroupsWith(mv, call.objs[i].pk) : g[1] = "residue"

(* C28: in the merged plan, for every object and every named field exactly
   one executed statement targets the object's primary key and sets the
   field, to the object's own value; every merged group holds at least 2
   primary keys that share its values; a value that is not hashable is in
   the residue of its object. *)
C28_MergedPlanSound ==
    MergeCall(call) =>
        \A k \in 1..Len(InvocationFields(call)) :
            LET fs == InvocationFields(call)[k]
                mv == _merge_values(call.objs, fs)
                st == StatementsOf(call, k)
            IN /\ \A i \in 1..Len(call.objs) : \A f \in SeqRange(fs) :
                     /\ \A g \in Carrying(mv, call.objs[i].pk, f) :
                           GroupData(mv, g)[f] = call.objs[i].vals[f]
                     /\ ~IsHashable(call.objs[i].vals[f]) =>
                           \E g \in Carrying(mv, call.objs[i].pk, f) : g[1] = "residue"
               /\ \A j \in 1..Len(mv.merged_updates) :
                     Cardinality(mv.merged_updates[j].key) >= 2
               /\ (call.err = "none" /\ k <= Len(call.inv) /\ call.inv[k].plan = "merged") =>
                     /\ IsMergedPlan(st, call.objs, fs)
                     /\ \A i \in 1..Len(call.objs) : \A f \in SeqRange(fs) :
                           Cardinality({j \in 1..Len(st) :
                               call.objs[i].pk \in st[j].pks /\ f \in st[j].cols}) = 1
\* a merged plan of two fields was executed with a merged group and residues
C28_Witness ==
    /\ MergeCall(call)
    /\ call.err = "none"
    /\ TookMergedPlan(call)
    /\ \E k \in 1..Len(InvocationFields(call)) :
          /\ call.inv[k].plan = "merged"
          /\ Len(InvocationFields(call)[k]) >= 2
          /\ LET mv == _merge_values(call.objs, InvocationFields(call)[k])
             IN Len(mv.merged_updates) >= 1 /\ Len(mv.flat_residues) >= 1

(* C29: a fast_update call that reaches the batch loop and returns executes
   its UPDATE .. FROM VALUES statements on consecutive batches of the
   objects in caller order: with size = min(batch_size or 2^31, backend
   maximum), statement j carries the objects (j-1)*size+1 .. j*size, the
   last one the rest, so that every object is in exactly one statement, no
   batch holds more than size objects and none is empty; the call returns
   the sum of the row counts of these statements. *)
ValuesStatements(c) == SelectSeq(c.log, LAMBDA e : e.op = "values")
\* the call took the fast path over its local fields and returned
BatchedCall(c) ==
    /\ c.impl \in {"fast_update", "fast.fast_update"}
    /\ c.err = "none"
    /\ c.vendor = "postgresql"
    /\ c.objs # <<>>
    /\ ValuesStatements(c) # <<>>
\* min(batch_size or 2^31, backend maximum): the backend takes all objects
\* of the call in one statement, and there are less than 2^31 of them
AdjustedSize(c) ==
    IF c.batch_size = NoBatch THEN Len(c.objs) ELSE Min(c.batch_size, Len(c.objs))
BatchIndices(c, j) ==
    {i \in 1..Len(c.objs) : (j - 1) * AdjustedSize(c) < i /\ i <= j * AdjustedSize(c)}
C29_Batching ==
    BatchedCall(call) =>
        LET st == ValuesStatements(call)
            size == AdjustedSize(call)
            n == Len(call.objs)
        IN /\ Len(st) = (n + size - 1) \div size
           /\ \A j \in 1..Len(st) :
                 /\ BatchIndices(call, j) # {}
                 /\ Cardinality(BatchIndices(call, j)) <= size
                 /\ j < Len(st) => Cardinality(BatchIndices(call, j)) = size
                 /\ st[j].pks = {call.objs[i].pk : i \in BatchIndices(call, j)}
                 /\ ~HasDuplicates(call.objs) => Cardinality(st[j].pks) = Cardinality(BatchIndices(call, j))
           /\ \A i \in 1..n : Cardinality({j \in 1..Len(st) : i \in BatchIndices(call, j)}) = 1
           /\ call.ret = SumRc(st, 1)
\* a call on 3 objects with batch size 2: a full batch, then the rest
C29_Witness ==
    /\ BatchedCall(call)
    /\ Len(call.objs) = 3
    /\ call.batch_size = 2
    /\ Len(ValuesStatements(call)) = 2
    /\ NonLocal(call.fields) = <<>>
    /\ call.ret = 3

====
